---- MODULE Spec2Model ----
(***************************************************************************)
(* Team-chat backend: the membership stores (channels, workspaces, direct  *)
(* message threads), the message store and the socket.io session layer.    *)
(* Every async store function has a body without an inner await, so the    *)
(* body runs with the code that calls it; every `await` in a handler is a  *)
(* point where the handlers of other connections may run.                  *)
(***************************************************************************)
EXTENDS Integers, Sequences, FiniteSets, TLC

\* ---------------------------------------------------------------- domains
Users == {"u1", "u2", "u3"}
Roles == {"owner", "admin", "member"}
ChannelTypes == {"public", "private"}
ChannelIds == {1}
ChannelNames == {"general", "random"}
WorkspaceIds == {1}
DmIds == {1, 2}
Sockets == {"s1", "s2", "s3"}
FileIds == {"f1"}
Statuses == {"active", "away", "dnd", "offline"}
StatusInputs == Statuses \cup {"busy"}

\* message texts a client may send: sequences of characters, " " is whitespace
Contents == {<<>>, <<" ">>, <<"a">>, <<" ", "a">>}

\* bounds of the exploration
MaxMessages == 2
MaxFileIds == 1

\* getChannelMessages(data.channelId, 50) in the channel:join handler
HistoryLimit == 50

NoChannel == [type |-> "none"]
NoWorkspace == [ownerId |-> "none"]
NoMember == [userId |-> "none", role |-> "none"]
NoDM == [type |-> "none"]
NoFile == [uploaderId |-> "none"]
NoMessage == [userId |-> "none"]
NoBefore == 0
\* the messages a store may hold: the sends, and the direct calls of the model
MaxStored == 4
MessageIds == 1..MaxStored
Idle == [kind |-> "idle"]

VARIABLES
  channels,          \* channel id -> Channel record (name, type, memberIds) or NoChannel
  channelsByName,    \* set of channel names in use
  channelMembers,    \* channel id -> sequence of ChannelMember records
  nextChannel,       \* the next fresh channel id (uuidv4 never repeats)
  workspaces,        \* workspace id -> Workspace record (ownerId) or NoWorkspace
  workspaceMembers,  \* workspace id -> sequence of WorkspaceMember records
  nextWorkspace,     \* the next fresh workspace id
  dms,               \* dm id -> DirectMessage record (type, participantIds) or NoDM
  dmByParticipants,  \* the DM keys in use, each with its dm id
  nextDm,            \* the next fresh dm id
  dmMessages,        \* dm id -> ordered DM message ids
  dmStore,           \* DM message id -> DMMessage record (the `messages` map of dm.ts)
  nextDmMessage,     \* the next fresh DM message id
  dmRooms,           \* dm id -> sockets in the room `dm:<id>`
  messages,          \* message id -> Message record (the `messages` map)
  channelMessages,   \* channel id -> ordered message ids
  nextMessage,       \* the next fresh message id
  notifications,     \* user id -> the user's Notification records, newest first
  dmPrefs,           \* user id -> NotificationPreferences.directMessages
  nextNotif,         \* the next fresh notification id
  pendingCounts,     \* the emitUnreadCount calls suspended on getUnreadCount
  files,             \* file id -> FileUpload record (uploaderId, messageId) or NoFile
  userStatus,        \* user id -> User.status
  userSockets,       \* user id -> set of socket ids (absent key = empty set)
  conn,              \* socket id -> "new" | "connecting" | "active" | "closing" | "closed"
  sockUser,          \* socket id -> socket.user.id
  rooms,             \* channel id -> sockets in the room `channel:<id>`
  task,              \* socket id -> the suspended event handler of the socket, or Idle
  delivered,         \* socket id -> ids of the `message:new` events received, in order
  history,           \* socket id -> channel id -> ids of the last `channel:history` received
  out,               \* the socket events emitted by the last step
  reply              \* what the last model call returned or threw: [op, res]

chanVars == <<channels, channelsByName, channelMembers, nextChannel>>
wsVars == <<workspaces, workspaceMembers, nextWorkspace>>
dmStoreVars == <<dms, dmByParticipants, nextDm, dmMessages, dmStore, nextDmMessage>>
dmVars == <<dmStoreVars, dmRooms>>
notifVars == <<notifications, dmPrefs, nextNotif, pendingCounts>>
msgVars == <<messages, channelMessages, nextMessage>>
sessVars == <<userStatus, userSockets, conn, sockUser, rooms, task, delivered, history>>
vars == <<chanVars, wsVars, dmVars, notifVars, msgVars, files, sessVars, out, reply>>

\* ---------------------------------------------------------------- helpers
\* Array.prototype.find on a member list: the first record of the user.
RECURSIVE FindMember(_, _)
FindMember(members, u) ==
  IF members = <<>> THEN NoMember
  ELSE IF Head(members).userId = u THEN Head(members)
  ELSE FindMember(Tail(members), u)

\* Array.prototype.includes
Includes(seq, x) == \E i \in 1..Len(seq) : seq[i] = x

\* Array.prototype.filter((m) => m.userId !== u)
RECURSIVE WithoutMember(_, _)
WithoutMember(members, u) ==
  IF members = <<>> THEN <<>>
  ELSE IF Head(members).userId = u THEN WithoutMember(Tail(members), u)
  ELSE <<Head(members)>> \o WithoutMember(Tail(members), u)

\* Array.prototype.filter((id) => id !== u)
RECURSIVE WithoutId(_, _)
WithoutId(ids, u) ==
  IF ids = <<>> THEN <<>>
  ELSE IF Head(ids) = u THEN WithoutId(Tail(ids), u)
  ELSE <<Head(ids)>> \o WithoutId(Tail(ids), u)

\* toUpdate.role = r on the first record of the user (find returns a reference)
RECURSIVE SetRole(_, _, _)
SetRole(members, u, r) ==
  IF members = <<>> THEN <<>>
  ELSE IF Head(members).userId = u
       THEN <<[Head(members) EXCEPT !.role = r]>> \o Tail(members)
       ELSE <<Head(members)>> \o SetRole(Tail(members), u, r)

OwnersOf(members) == {i \in 1..Len(members) : members[i].role = "owner"}

Said(op, res) == [op |-> op, res |-> res]

\* ---------------------------------------------------------------- channels
ChannelExists(c) == channels[c] # NoChannel

\* isMember(channelId, userId)
isMember(c, u) ==
  IF ~ChannelExists(c) THEN FALSE ELSE Includes(channels[c].memberIds, u)

CreateChannelResult(name) ==
  IF name \in channelsByName THEN "Channel name already exists" ELSE "ok"

CreateChannel(name, type, creatorId) ==
  /\ LET res == CreateChannelResult(name) IN
     /\ reply' = Said("createChannel", res)
     /\ IF res = "ok"
        THEN /\ nextChannel \in ChannelIds
             /\ channels' = [channels EXCEPT ![nextChannel] =
                   [name |-> name, type |-> type, memberIds |-> <<creatorId>>]]
             /\ channelsByName' = channelsByName \cup {name}
             /\ channelMembers' = [channelMembers EXCEPT ![nextChannel] =
                   <<[userId |-> creatorId, role |-> "owner"]>>]
             /\ nextChannel' = nextChannel + 1
        ELSE UNCHANGED chanVars
  /\ out' = {}
  /\ UNCHANGED <<wsVars, dmVars, notifVars, msgVars, files, sessVars>>

DeleteChannelResult(c, u) ==
  IF ~ChannelExists(c) THEN "false"
  ELSE IF FindMember(channelMembers[c], u).role # "owner"
       THEN "Only channel owner can delete"
  ELSE "ok"

DeleteChannel(c, u) ==
  /\ LET res == DeleteChannelResult(c, u) IN
     /\ reply' = Said("deleteChannel", res)
     /\ IF res = "ok"
        THEN /\ channelsByName' = channelsByName \ {channels[c].name}
             /\ channels' = [channels EXCEPT ![c] = NoChannel]
             /\ channelMembers' = [channelMembers EXCEPT ![c] = <<>>]
             /\ UNCHANGED nextChannel
        ELSE UNCHANGED chanVars
  /\ out' = {}
  /\ UNCHANGED <<wsVars, dmVars, notifVars, msgVars, files, sessVars>>

\* addMember without the membership test on the adder
AddMemberResultOpen(c, u, addedBy, role) ==
  IF ~ChannelExists(c) THEN "Channel not found"
  ELSE IF Includes(channels[c].memberIds, u) THEN "User is already a member"
  ELSE "ok"

AddMemberResult(c, u, addedBy, role) ==
  IF ~ChannelExists(c) THEN "Channel not found"
  ELSE IF channels[c].type = "private"
          /\ FindMember(channelMembers[c], addedBy) = NoMember
       THEN "Permission denied"
  ELSE IF Includes(channels[c].memberIds, u) THEN "User is already a member"
  ELSE "ok"

AddMember(c, u, addedBy, role) ==
  /\ LET res == AddMemberResult(c, u, addedBy, role) IN
     /\ reply' = Said("addMember", res)
     /\ IF res = "ok"
        THEN /\ channels' = [channels EXCEPT ![c].memberIds = Append(@, u)]
             /\ channelMembers' = [channelMembers EXCEPT ![c] =
                   Append(@, [userId |-> u, role |-> role])]
             /\ UNCHANGED <<channelsByName, nextChannel>>
        ELSE UNCHANGED chanVars
  /\ out' = {}
  /\ UNCHANGED <<wsVars, dmVars, notifVars, msgVars, files, sessVars>>

\* removeMember without the rule that keeps the owner from leaving
RemoveMemberResultOwnerLeaves(c, u, removedBy) ==
  IF ~ChannelExists(c) THEN "Channel not found"
  ELSE LET members == channelMembers[c]
           remover == FindMember(members, removedBy)
           toRemove == FindMember(members, u)
       IN IF toRemove = NoMember THEN "User is not a member"
          ELSE IF removedBy # u /\ remover.role \notin {"owner", "admin"}
               THEN "Permission denied"
          ELSE IF removedBy # u /\ toRemove.role = "owner"
               THEN "Cannot remove channel owner"
          ELSE "ok"

RemoveMemberResult(c, u, removedBy) ==
  IF ~ChannelExists(c) THEN "Channel not found"
  ELSE LET members == channelMembers[c]
           remover == FindMember(members, removedBy)
           toRemove == FindMember(members, u)
       IN IF toRemove = NoMember THEN "User is not a member"
          ELSE IF removedBy # u /\ remover.role \notin {"owner", "admin"}
               THEN "Permission denied"
          ELSE IF removedBy # u /\ toRemove.role = "owner"
               THEN "Cannot remove channel owner"
          ELSE IF toRemove.role = "owner" /\ u = removedBy
               THEN "Owner must transfer ownership before leaving"
          ELSE "ok"

\* a removal that filters the id list and keeps the member record
RemoveMemberIdsOnly(c, u, removedBy) ==
  /\ LET res == RemoveMemberResult(c, u, removedBy) IN
     /\ reply' = Said("removeMember", res)
     /\ IF res = "ok"
        THEN /\ channels' = [channels EXCEPT ![c].memberIds = WithoutId(@, u)]
             /\ UNCHANGED <<channelMembers, channelsByName, nextChannel>>
        ELSE UNCHANGED chanVars
  /\ out' = {}
  /\ UNCHANGED <<wsVars, dmVars, notifVars, msgVars, files, sessVars>>

RemoveMember(c, u, removedBy) ==
  /\ LET res == RemoveMemberResult(c, u, removedBy) IN
     /\ reply' = Said("removeMember", res)
     /\ IF res = "ok"
        THEN /\ channels' = [channels EXCEPT ![c].memberIds = WithoutId(@, u)]
             /\ channelMembers' = [channelMembers EXCEPT ![c] = WithoutMember(@, u)]
             /\ UNCHANGED <<channelsByName, nextChannel>>
        ELSE UNCHANGED chanVars
  /\ out' = {}
  /\ UNCHANGED <<wsVars, dmVars, notifVars, msgVars, files, sessVars>>

\* joinPublicChannel without the test of the channel's type
JoinPublicChannelResultAnyType(c, u) ==
  IF ~ChannelExists(c) THEN "Channel not found"
  ELSE IF Includes(channels[c].memberIds, u) THEN "Already a member"
  ELSE "ok"

JoinPublicChannelResult(c, u) ==
  IF ~ChannelExists(c) THEN "Channel not found"
  ELSE IF channels[c].type # "public"
       THEN "Cannot join private channel without invitation"
  ELSE IF Includes(channels[c].memberIds, u) THEN "Already a member"
  ELSE "ok"

JoinPublicChannel(c, u) ==
  /\ LET res == JoinPublicChannelResult(c, u) IN
     /\ reply' = Said("joinPublicChannel", res)
     /\ IF res = "ok"
        THEN /\ channels' = [channels EXCEPT ![c].memberIds = Append(@, u)]
             /\ channelMembers' = [channelMembers EXCEPT ![c] =
                   Append(@, [userId |-> u, role |-> "member"])]
             /\ UNCHANGED <<channelsByName, nextChannel>>
        ELSE UNCHANGED chanVars
  /\ out' = {}
  /\ UNCHANGED <<wsVars, dmVars, notifVars, msgVars, files, sessVars>>

\* ---------------------------------------------------------------- workspaces
WorkspaceExists(w) == workspaces[w] # NoWorkspace

CreateWorkspace(ownerId) ==
  /\ nextWorkspace \in WorkspaceIds
  /\ workspaces' = [workspaces EXCEPT ![nextWorkspace] = [ownerId |-> ownerId]]
  /\ workspaceMembers' = [workspaceMembers EXCEPT ![nextWorkspace] =
        <<[userId |-> ownerId, role |-> "owner"]>>]
  /\ nextWorkspace' = nextWorkspace + 1
  /\ reply' = Said("createWorkspace", "ok")
  /\ out' = {}
  /\ UNCHANGED <<chanVars, dmVars, notifVars, msgVars, files, sessVars>>

DeleteWorkspaceResult(w, u) ==
  IF ~WorkspaceExists(w) THEN "false"
  ELSE IF workspaces[w].ownerId # u THEN "Only workspace owner can delete"
  ELSE "ok"

DeleteWorkspace(w, u) ==
  /\ LET res == DeleteWorkspaceResult(w, u) IN
     /\ reply' = Said("deleteWorkspace", res)
     /\ IF res = "ok"
        THEN /\ workspaces' = [workspaces EXCEPT ![w] = NoWorkspace]
             /\ workspaceMembers' = [workspaceMembers EXCEPT ![w] = <<>>]
             /\ UNCHANGED nextWorkspace
        ELSE UNCHANGED wsVars
  /\ out' = {}
  /\ UNCHANGED <<chanVars, dmVars, notifVars, msgVars, files, sessVars>>

WsAddMemberResult(w, u, addedBy, role) ==
  IF ~WorkspaceExists(w) THEN "Workspace not found"
  ELSE IF FindMember(workspaceMembers[w], addedBy).role \notin {"owner", "admin"}
       THEN "Permission denied"
  ELSE IF FindMember(workspaceMembers[w], u) # NoMember
       THEN "User is already a member"
  ELSE IF role = "owner" THEN "Cannot add user as owner"
  ELSE "ok"

WsAddMember(w, u, addedBy, role) ==
  /\ LET res == WsAddMemberResult(w, u, addedBy, role) IN
     /\ reply' = Said("wsAddMember", res)
     /\ IF res = "ok"
        THEN /\ workspaceMembers' = [workspaceMembers EXCEPT ![w] =
                   Append(@, [userId |-> u, role |-> role])]
             /\ UNCHANGED <<workspaces, nextWorkspace>>
        ELSE UNCHANGED wsVars
  /\ out' = {}
  /\ UNCHANGED <<chanVars, dmVars, notifVars, msgVars, files, sessVars>>

\* removeMember without the rule that protects the owner from the others
WsRemoveMemberResultNoOwnerGuard(w, u, removedBy) ==
  IF ~WorkspaceExists(w) THEN "Workspace not found"
  ELSE LET members == workspaceMembers[w]
           remover == FindMember(members, removedBy)
           toRemove == FindMember(members, u)
       IN IF toRemove = NoMember THEN "User is not a member"
          ELSE IF removedBy # u /\ remover.role \notin {"owner", "admin"}
               THEN "Permission denied"
          ELSE IF toRemove.role = "owner" /\ u = removedBy
               THEN "Owner must transfer ownership before leaving"
          ELSE "ok"

WsRemoveMemberResult(w, u, removedBy) ==
  IF ~WorkspaceExists(w) THEN "Workspace not found"
  ELSE LET members == workspaceMembers[w]
           remover == FindMember(members, removedBy)
           toRemove == FindMember(members, u)
       IN IF toRemove = NoMember THEN "User is not a member"
          ELSE IF removedBy # u /\ remover.role \notin {"owner", "admin"}
               THEN "Permission denied"
          ELSE IF removedBy # u /\ toRemove.role = "owner"
               THEN "Cannot remove workspace owner"
          ELSE IF toRemove.role = "owner" /\ u = removedBy
               THEN "Owner must transfer ownership before leaving"
          ELSE "ok"

WsRemoveMember(w, u, removedBy) ==
  /\ LET res == WsRemoveMemberResult(w, u, removedBy) IN
     /\ reply' = Said("wsRemoveMember", res)
     /\ IF res = "ok"
        THEN /\ workspaceMembers' = [workspaceMembers EXCEPT ![w] = WithoutMember(@, u)]
             /\ UNCHANGED <<workspaces, nextWorkspace>>
        ELSE UNCHANGED wsVars
  /\ out' = {}
  /\ UNCHANGED <<chanVars, dmVars, notifVars, msgVars, files, sessVars>>

\* updateMemberRole without the test of the new role
UpdateMemberRoleResultAnyRole(w, u, newRole, updatedBy) ==
  IF ~WorkspaceExists(w) THEN "Workspace not found"
  ELSE LET members == workspaceMembers[w]
           updater == FindMember(members, updatedBy)
           toUpdate == FindMember(members, u)
       IN IF toUpdate = NoMember THEN "User is not a member"
          ELSE IF updater.role # "owner" THEN "Only workspace owner can change roles"
          ELSE IF toUpdate.role = "owner" THEN "Use transfer ownership to change owner"
          ELSE "ok"

UpdateMemberRoleResult(w, u, newRole, updatedBy) ==
  IF ~WorkspaceExists(w) THEN "Workspace not found"
  ELSE LET members == workspaceMembers[w]
           updater == FindMember(members, updatedBy)
           toUpdate == FindMember(members, u)
       IN IF toUpdate = NoMember THEN "User is not a member"
          ELSE IF updater.role # "owner" THEN "Only workspace owner can change roles"
          ELSE IF toUpdate.role = "owner" THEN "Use transfer ownership to change owner"
          ELSE IF newRole = "owner" THEN "Use transfer ownership to promote to owner"
          ELSE "ok"

UpdateMemberRole(w, u, newRole, updatedBy) ==
  /\ LET res == UpdateMemberRoleResult(w, u, newRole, updatedBy) IN
     /\ reply' = Said("updateMemberRole", res)
     /\ IF res = "ok"
        THEN /\ workspaceMembers' = [workspaceMembers EXCEPT ![w] = SetRole(@, u, newRole)]
             /\ UNCHANGED <<workspaces, nextWorkspace>>
        ELSE UNCHANGED wsVars
  /\ out' = {}
  /\ UNCHANGED <<chanVars, dmVars, notifVars, msgVars, files, sessVars>>

TransferOwnershipResult(w, newOwnerId, currentOwnerId) ==
  IF ~WorkspaceExists(w) THEN "Workspace not found"
  ELSE IF workspaces[w].ownerId # currentOwnerId
       THEN "Only current owner can transfer ownership"
  ELSE IF FindMember(workspaceMembers[w], newOwnerId) = NoMember
       THEN "New owner must be a workspace member"
  ELSE "ok"

\* a transfer that promotes the new owner and forgets to demote the old one
TransferredRolesKeepOld(members, newOwnerId, currentOwnerId) ==
  SetRole(members, newOwnerId, "owner")

\* currentOwner.role = 'admin' (when found), then newOwner.role = 'owner'
TransferredRoles(members, newOwnerId, currentOwnerId) ==
  SetRole(SetRole(members, currentOwnerId, "admin"), newOwnerId, "owner")

\* a transfer that moves the roles and leaves the owner pointer where it was
TransferOwnershipRolesOnly(w, newOwnerId, currentOwnerId) ==
  /\ LET res == TransferOwnershipResult(w, newOwnerId, currentOwnerId) IN
     /\ reply' = Said("transferOwnership", res)
     /\ IF res = "ok"
        THEN /\ workspaceMembers' = [workspaceMembers EXCEPT ![w] =
                   TransferredRoles(@, newOwnerId, currentOwnerId)]
             /\ UNCHANGED <<workspaces, nextWorkspace>>
        ELSE UNCHANGED wsVars
  /\ out' = {}
  /\ UNCHANGED <<chanVars, dmVars, notifVars, msgVars, files, sessVars>>

TransferOwnership(w, newOwnerId, currentOwnerId) ==
  /\ LET res == TransferOwnershipResult(w, newOwnerId, currentOwnerId) IN
     /\ reply' = Said("transferOwnership", res)
     /\ IF res = "ok"
        THEN /\ workspaceMembers' = [workspaceMembers EXCEPT ![w] =
                   TransferredRoles(@, newOwnerId, currentOwnerId)]
             /\ workspaces' = [workspaces EXCEPT ![w].ownerId = newOwnerId]
             /\ UNCHANGED nextWorkspace
        ELSE UNCHANGED wsVars
  /\ out' = {}
  /\ UNCHANGED <<chanVars, dmVars, notifVars, msgVars, files, sessVars>>

\* ---------------------------------------------------------------- messages
\* String.prototype.trim on a sequence of characters
RECURSIVE TrimStart(_)
TrimStart(str) ==
  IF str # <<>> /\ Head(str) = " " THEN TrimStart(Tail(str)) ELSE str

RECURSIVE TrimEnd(_)
TrimEnd(str) ==
  IF str # <<>> /\ str[Len(str)] = " " THEN TrimEnd(SubSeq(str, 1, Len(str) - 1)) ELSE str

Trim(str) == TrimEnd(TrimStart(str))

\* Array.prototype.indexOf, 1-based, 0 when absent
RECURSIVE IndexOf(_, _)
IndexOf(seq, x) ==
  IF seq = <<>> THEN 0
  ELSE IF Head(seq) = x THEN 1
  ELSE LET i == IndexOf(Tail(seq), x) IN IF i = 0 THEN 0 ELSE i + 1

Max(a, b) == IF a > b THEN a ELSE b

\* selectedIds.map((id) => messages.get(id)).filter((m) => m !== undefined)
RECURSIVE StoredMessages(_)
StoredMessages(ids) ==
  IF ids = <<>> THEN <<>>
  ELSE IF messages[Head(ids)] = NoMessage THEN StoredMessages(Tail(ids))
  ELSE <<messages[Head(ids)]>> \o StoredMessages(Tail(ids))

\* the Message record createMessage builds
NewMessage(id, c, u, content) ==
  [id |-> id, channelId |-> c, userId |-> u, content |-> content]

\* createMessage({channelId, userId, content}), called by the message route
createMessage(c, u, content) ==
  /\ nextMessage <= MaxStored
  /\ messages' = [messages EXCEPT ![nextMessage] = NewMessage(nextMessage, c, u, content)]
  /\ channelMessages' = [channelMessages EXCEPT ![c] = Append(@, nextMessage)]
  /\ nextMessage' = nextMessage + 1
  /\ out' = {}
  /\ reply' = Said("createMessage", "ok")
  /\ UNCHANGED <<chanVars, wsVars, dmVars, notifVars, files, sessVars>>

updateMessageResult(m, u) ==
  IF messages[m] = NoMessage THEN "null"
  ELSE IF messages[m].userId # u THEN "Permission denied"
  ELSE "ok"

\* updateMessage(id, userId, content)
updateMessage(m, u, content) ==
  /\ LET res == updateMessageResult(m, u) IN
     /\ reply' = Said("updateMessage", res)
     /\ messages' = IF res = "ok" THEN [messages EXCEPT ![m].content = content]
                    ELSE messages
  /\ out' = {}
  /\ UNCHANGED <<chanVars, wsVars, dmVars, notifVars, channelMessages, nextMessage,
                 files, sessVars>>

\* a delete that does not look at the author
deleteMessageResultAnyone(m, u) ==
  IF messages[m] = NoMessage THEN "false"
  ELSE "ok"

deleteMessageResult(m, u) ==
  IF messages[m] = NoMessage THEN "false"
  ELSE IF messages[m].userId # u THEN "Permission denied"
  ELSE "ok"

\* deleteMessage(id, userId): the record and its entry in the channel's list
deleteMessage(m, u) ==
  /\ LET res == deleteMessageResult(m, u) IN
     /\ reply' = Said("deleteMessage", res)
     /\ IF res = "ok"
        THEN /\ messages' = [messages EXCEPT ![m] = NoMessage]
             /\ channelMessages' = [channelMessages EXCEPT ![messages[m].channelId] =
                   WithoutId(@, m)]
             /\ UNCHANGED nextMessage
        ELSE UNCHANGED msgVars
  /\ out' = {}
  /\ UNCHANGED <<chanVars, wsVars, dmVars, notifVars, files, sessVars>>

\* a page that starts at the oldest message
getChannelMessagesFromStart(c, limit, before) ==
  LET messageIds == channelMessages[c]
      beforeIndex == IF before = NoBefore THEN 0 ELSE IndexOf(messageIds, before)
      startIndex == IF beforeIndex # 0 THEN beforeIndex - 1 ELSE Len(messageIds)
  IN StoredMessages(SubSeq(messageIds, 1, IF limit < startIndex THEN limit ELSE startIndex))

\* getChannelMessages(channelId, limit, before)
getChannelMessages(c, limit, before) ==
  LET messageIds == channelMessages[c]
      beforeIndex == IF before = NoBefore THEN 0 ELSE IndexOf(messageIds, before)
      startIndex == IF beforeIndex # 0 THEN beforeIndex - 1 ELSE Len(messageIds)
      start == Max(0, startIndex - limit)
  IN StoredMessages(SubSeq(messageIds, start + 1, startIndex))

\* uploadFile: the file store is filled through the upload route
UploadFile(f, u) ==
  /\ files[f] = NoFile
  /\ files' = [files EXCEPT ![f] = [uploaderId |-> u, messageId |-> 0]]
  /\ out' = {}
  /\ reply' = Said("uploadFile", "ok")
  /\ UNCHANGED <<chanVars, wsVars, dmVars, notifVars, msgVars, sessVars>>

\* GET /channels/:id/messages: the page the route answers with
PageChannel(c, limit, before) ==
  /\ reply' = [op |-> "getChannelMessages", res |-> "ok",
               page |-> getChannelMessages(c, limit, before)]
  /\ out' = {}
  /\ UNCHANGED <<chanVars, wsVars, dmVars, notifVars, msgVars, files, sessVars>>

\* ---------------------------------------------------------------- session layer
\* the sockets of the namespace: io.emit and room broadcasts reach only these
Connected == {s \in Sockets : conn[s] \in {"connecting", "active"}}

\* an error that is emitted to the whole namespace
ErrorEventToAll(s, message) ==
  [ev |-> "error", to |-> Connected, message |-> message]

ErrorEvent(s, message) ==
  [ev |-> "error", to |-> {s} \cap Connected, message |-> message]

PresenceChanged(u, status) ==
  [ev |-> "presence:changed", to |-> Connected, userId |-> u, status |-> status]

NoReply == Said("none", "none")

\* io.on('connection'): track the socket, updateUser(active), then suspend
Connect(s, u) ==
  /\ conn[s] = "new"
  /\ conn' = [conn EXCEPT ![s] = "connecting"]
  /\ sockUser' = [sockUser EXCEPT ![s] = u]
  /\ userSockets' = [userSockets EXCEPT ![u] = @ \cup {s}]
  /\ userStatus' = [userStatus EXCEPT ![u] = "active"]
  /\ out' = {}
  /\ reply' = NoReply
  /\ UNCHANGED <<chanVars, wsVars, dmVars, notifVars, msgVars, files, rooms, task, delivered, history>>

\* the tokens of a handshake: none, one that jwt.verify rejects, and one per
\* user id of a payload; u9 is the id of a user that was deleted
Tokens == {"none", "bad", "u9"} \cup Users

\* a middleware that does not look the user up
AuthResultNoLookup(token) ==
  IF token = "none" THEN "Authentication required"
  ELSE IF token = "bad" THEN "Invalid token"
  ELSE "ok"

\* io.use: the error the middleware passes to next(), or ok
AuthResult(token) ==
  IF token = "none" THEN "Authentication required"
  ELSE IF token = "bad" THEN "Invalid token"
  ELSE IF token \notin Users THEN "User not found"
  ELSE "ok"

\* a handshake: the middleware, and the connection handler if it calls next()
Handshake(s, token) ==
  /\ conn[s] = "new"
  /\ IF AuthResult(token) = "ok"
     THEN Connect(s, token)
     ELSE /\ conn' = [conn EXCEPT ![s] = "refused"]
          /\ out' = {}
          /\ reply' = Said("connect_error", AuthResult(token))
          /\ UNCHANGED <<chanVars, wsVars, dmVars, notifVars, msgVars, files, userStatus,
                         userSockets, sockUser, rooms, task, delivered, history>>

\* the client goes away while the connection handler waits for updateUser:
\* the socket leaves the namespace and its 'disconnect' event is emitted
\* before socket.on('disconnect') is reached, so no listener runs
CloseWhileConnecting(s) ==
  /\ conn[s] = "connecting"
  /\ conn' = [conn EXCEPT ![s] = "dropped"]
  /\ rooms' = [c \in ChannelIds |-> rooms[c] \ {s}]
  /\ dmRooms' = [d \in DmIds |-> dmRooms[d] \ {s}]
  /\ out' = {}
  /\ reply' = NoReply
  /\ UNCHANGED <<chanVars, wsVars, dmStoreVars, notifVars, msgVars, files, userStatus,
                 userSockets, sockUser, task, delivered, history>>

\* after the await: broadcast the presence, register the event handlers (on a
\* socket that is gone they never fire)
ConnectResume(s) ==
  /\ conn[s] \in {"connecting", "dropped"}
  /\ conn' = [conn EXCEPT ![s] = IF conn[s] = "connecting" THEN "active" ELSE "closed"]
  /\ out' = {PresenceChanged(sockUser[s], "active")}
  /\ reply' = NoReply
  /\ UNCHANGED <<chanVars, wsVars, dmVars, notifVars, msgVars, files, userStatus,
                 userSockets, sockUser, rooms, task, delivered, history>>

DisconnectAlwaysOffline(s) ==
  /\ conn[s] = "active"
  /\ LET u == sockUser[s]
     IN /\ userSockets' = [userSockets EXCEPT ![u] = @ \ {s}]
        /\ userStatus' = [userStatus EXCEPT ![u] = "offline"]
        /\ conn' = [conn EXCEPT ![s] = "closing"]
  /\ rooms' = [c \in ChannelIds |-> rooms[c] \ {s}]
  /\ dmRooms' = [d \in DmIds |-> dmRooms[d] \ {s}]
  /\ out' = {}
  /\ reply' = NoReply
  /\ UNCHANGED <<chanVars, wsVars, dmStoreVars, notifVars, msgVars, files, sockUser, task,
                 delivered, history>>

\* the socket leaves its rooms, then socket.on('disconnect') runs up to its await
Disconnect(s) ==
  /\ conn[s] = "active"
  /\ LET u == sockUser[s]
         last == userSockets[u] \ {s} = {}
     IN /\ userSockets' = [userSockets EXCEPT ![u] = @ \ {s}]
        /\ userStatus' = IF last THEN [userStatus EXCEPT ![u] = "offline"] ELSE userStatus
        /\ conn' = [conn EXCEPT ![s] = IF last THEN "closing" ELSE "closed"]
  /\ rooms' = [c \in ChannelIds |-> rooms[c] \ {s}]
  /\ dmRooms' = [d \in DmIds |-> dmRooms[d] \ {s}]
  /\ out' = {}
  /\ reply' = NoReply
  /\ UNCHANGED <<chanVars, wsVars, dmStoreVars, notifVars, msgVars, files, sockUser, task,
                 delivered, history>>

\* the disconnect handler of a last connection, after its await
DisconnectResume(s) ==
  /\ conn[s] = "closing"
  /\ conn' = [conn EXCEPT ![s] = "closed"]
  /\ out' = {PresenceChanged(sockUser[s], "offline")}
  /\ reply' = NoReply
  /\ UNCHANGED <<chanVars, wsVars, dmVars, notifVars, msgVars, files, userStatus,
                 userSockets, sockUser, rooms, task, delivered, history>>

\* socket.on('presence:update') up to its await
PresenceUpdate(s, status) ==
  /\ conn[s] = "active"
  /\ task[s] = Idle
  /\ IF status \notin Statuses
     THEN /\ out' = {ErrorEvent(s, "Invalid status")}
          /\ UNCHANGED <<userStatus, task>>
     ELSE /\ userStatus' = [userStatus EXCEPT ![sockUser[s]] = status]
          /\ task' = [task EXCEPT ![s] = [kind |-> "presence", status |-> status]]
          /\ out' = {}
  /\ reply' = NoReply
  /\ UNCHANGED <<chanVars, wsVars, dmVars, notifVars, msgVars, files, userSockets, conn,
                 sockUser, rooms, delivered, history>>

PresenceResume(s) ==
  /\ task[s].kind = "presence"
  /\ task' = [task EXCEPT ![s] = Idle]
  /\ out' = {PresenceChanged(sockUser[s], task[s].status)}
  /\ reply' = NoReply
  /\ UNCHANGED <<chanVars, wsVars, dmVars, notifVars, msgVars, files, userStatus,
                 userSockets, conn, sockUser, rooms, delivered, history>>

\* ---------------------------------------------------------------- channel rooms
\* io.to(`channel:<c>`): the sockets of the room that are still in the namespace
RoomSockets(c) == rooms[c] \cap Connected

\* a join whose history holds the newest message only
JoinRoomLastOnly(s, c) ==
  /\ rooms' = [rooms EXCEPT ![c] = @ \cup {s}]
  /\ out' = {[ev |-> "channel:joined", to |-> RoomSockets(c) \ {s},
              channelId |-> c, userId |-> sockUser[s]]}
  /\ task' = [task EXCEPT ![s] =
        [kind |-> "join", pc |-> "history", channelId |-> c,
         snapshot |-> getChannelMessages(c, 1, NoBefore)]]

\* socket.join(`channel:<c>`), socket.to(room).emit('channel:joined'), then
\* getChannelMessages(c, 50) is called and the handler suspends
JoinRoom(s, c) ==
  /\ rooms' = [rooms EXCEPT ![c] = @ \cup {s}]
  /\ out' = {[ev |-> "channel:joined", to |-> RoomSockets(c) \ {s},
              channelId |-> c, userId |-> sockUser[s]]}
  /\ task' = [task EXCEPT ![s] =
        [kind |-> "join", pc |-> "history", channelId |-> c,
         snapshot |-> getChannelMessages(c, HistoryLimit, NoBefore)]]

\* socket.on('channel:join') up to `await findChannelById`
ChannelJoin(s, c) ==
  /\ conn[s] = "active"
  /\ task[s] = Idle
  /\ task' = [task EXCEPT ![s] =
        [kind |-> "join", pc |-> "lookup", channelId |-> c,
         found |-> ChannelExists(c), type |-> channels[c].type]]
  /\ out' = {}
  /\ reply' = NoReply
  /\ UNCHANGED <<chanVars, wsVars, dmVars, notifVars, msgVars, files, userStatus,
                 userSockets, conn, sockUser, rooms, delivered, history>>

\* from the channel lookup to the next await: isMember for a private channel,
\* the join itself for a public one
ChannelJoinLookedUp(s) ==
  /\ task[s].kind = "join" /\ task[s].pc = "lookup"
  /\ LET c == task[s].channelId IN
     IF ~task[s].found
     THEN /\ out' = {ErrorEvent(s, "Channel not found")}
          /\ task' = [task EXCEPT ![s] = Idle]
          /\ UNCHANGED rooms
     ELSE IF task[s].type = "private"
     THEN /\ task' = [task EXCEPT ![s] =
                [kind |-> "join", pc |-> "check", channelId |-> c,
                 member |-> isMember(c, sockUser[s])]]
          /\ out' = {}
          /\ UNCHANGED rooms
     ELSE JoinRoom(s, c)
  /\ reply' = NoReply
  /\ UNCHANGED <<chanVars, wsVars, dmVars, notifVars, msgVars, files, userStatus,
                 userSockets, conn, sockUser, delivered, history>>

ChannelJoinCheckedOpen(s) ==
  /\ task[s].kind = "join" /\ task[s].pc = "check"
  /\ JoinRoom(s, task[s].channelId)
  /\ reply' = NoReply
  /\ UNCHANGED <<chanVars, wsVars, dmVars, notifVars, msgVars, files, userStatus,
                 userSockets, conn, sockUser, delivered, history>>

\* after `await isMember`: deny, or join
ChannelJoinChecked(s) ==
  /\ task[s].kind = "join" /\ task[s].pc = "check"
  /\ IF ~task[s].member
     THEN /\ out' = {ErrorEvent(s, "Access denied")}
          /\ task' = [task EXCEPT ![s] = Idle]
          /\ UNCHANGED rooms
     ELSE JoinRoom(s, task[s].channelId)
  /\ reply' = NoReply
  /\ UNCHANGED <<chanVars, wsVars, dmVars, notifVars, msgVars, files, userStatus,
                 userSockets, conn, sockUser, delivered, history>>

\* after `await getChannelMessages`: socket.emit('channel:history')
ChannelJoinHistory(s) ==
  /\ task[s].kind = "join" /\ task[s].pc = "history"
  /\ out' = {[ev |-> "channel:history", to |-> {s} \cap Connected,
              channelId |-> task[s].channelId, messages |-> task[s].snapshot]}
  /\ history' = IF s \in Connected
                THEN [history EXCEPT ![s][task[s].channelId] =
                        {task[s].snapshot[i].id : i \in 1..Len(task[s].snapshot)}]
                ELSE history
  /\ task' = [task EXCEPT ![s] = Idle]
  /\ reply' = NoReply
  /\ UNCHANGED <<chanVars, wsVars, dmVars, notifVars, msgVars, files, userStatus,
                 userSockets, conn, sockUser, rooms, delivered>>

\* socket.on('channel:leave')
ChannelLeave(s, c) ==
  /\ conn[s] = "active"
  /\ task[s] = Idle
  /\ rooms' = [rooms EXCEPT ![c] = @ \ {s}]
  /\ out' = {[ev |-> "channel:left", to |-> RoomSockets(c) \ {s},
              channelId |-> c, userId |-> sockUser[s]]}
  /\ reply' = NoReply
  /\ UNCHANGED <<chanVars, wsVars, dmVars, notifVars, msgVars, files, userStatus,
                 userSockets, conn, sockUser, task, delivered, history>>

\* a typing event that goes to the whole room
MessageTypingEcho(s, c) ==
  /\ conn[s] = "active"
  /\ task[s] = Idle
  /\ out' = {[ev |-> "message:typing", to |-> RoomSockets(c),
              channelId |-> c, userId |-> sockUser[s]]}
  /\ reply' = NoReply
  /\ UNCHANGED <<chanVars, wsVars, dmVars, notifVars, msgVars, files, sessVars>>

\* socket.on('message:typing')
MessageTyping(s, c) ==
  /\ conn[s] = "active"
  /\ task[s] = Idle
  /\ out' = {[ev |-> "message:typing", to |-> RoomSockets(c) \ {s},
              channelId |-> c, userId |-> sockUser[s]]}
  /\ reply' = NoReply
  /\ UNCHANGED <<chanVars, wsVars, dmVars, notifVars, msgVars, files, sessVars>>

\* ---------------------------------------------------------------- message:send
\* the file-id lists a client may send
FileIdLists == UNION {[1..n -> FileIds] : n \in 0..MaxFileIds}

\* !data.content || data.content.trim().length === 0
Blank(content) == Trim(content) = <<>>

\* the sends that have passed validation and not yet called createMessage
SendsBeforeCreate ==
  {s \in Sockets : task[s].kind = "send" /\ task[s].pc \in {"lookup", "check"}}

MessageNewToOthers(t) ==
  [ev |-> "message:new",
   to |-> {r \in RoomSockets(t.channelId) : sockUser[r] # t.message.userId},
   message |-> t.message, userId |-> t.message.userId, files |-> t.files]

\* io.to(`channel:<c>`).emit('message:new', messageWithUser)
MessageNew(t) ==
  [ev |-> "message:new", to |-> RoomSockets(t.channelId),
   message |-> t.message, userId |-> t.message.userId, files |-> t.files]

\* the emit ends the handler; every socket the event goes to receives it
Broadcast(s, t) ==
  /\ out' = {MessageNew(t)}
  /\ delivered' = [r \in Sockets |->
        IF r \in MessageNew(t).to
        THEN Append(delivered[r], t.message.id) ELSE delivered[r]]
  /\ task' = [task EXCEPT ![s] = Idle]
  /\ UNCHANGED history

\* the for-loop over data.fileIds from iteration i on: getFileById(fileIds[i])
\* is called and the handler suspends, or the loop is over and the message is
\* broadcast
FileLoop(s, t, i) ==
  IF i > Len(t.fileIds)
  THEN Broadcast(s, t)
  ELSE /\ task' = [task EXCEPT ![s] =
             [t EXCEPT !.pc = "file", !.fi = i, !.file = files[t.fileIds[i]]]]
       /\ out' = {}
       /\ UNCHANGED <<delivered, history>>

\* socket.on('message:send') up to `await findChannelById`
MessageSend(s, c, content, fileIds) ==
  /\ conn[s] = "active"
  /\ task[s] = Idle
  /\ IF Blank(content) /\ fileIds = <<>>
     THEN /\ out' = {ErrorEvent(s, "Message content or files required")}
          /\ UNCHANGED task
     ELSE /\ (nextMessage - 1) + Cardinality(SendsBeforeCreate) < MaxMessages
          /\ task' = [task EXCEPT ![s] =
                [kind |-> "send", pc |-> "lookup", channelId |-> c,
                 content |-> content, fileIds |-> fileIds,
                 found |-> ChannelExists(c)]]
          /\ out' = {}
  /\ reply' = NoReply
  /\ UNCHANGED <<chanVars, wsVars, dmVars, notifVars, msgVars, files, userStatus,
                 userSockets, conn, sockUser, rooms, delivered, history>>

\* after `await findChannelById`: reject, or call isMember and suspend
MessageSendLookedUp(s) ==
  /\ task[s].kind = "send" /\ task[s].pc = "lookup"
  /\ IF ~task[s].found
     THEN /\ out' = {ErrorEvent(s, "Channel not found")}
          /\ task' = [task EXCEPT ![s] = Idle]
     ELSE /\ out' = {}
          /\ task' = [task EXCEPT ![s] =
                [kind |-> "send", pc |-> "check", channelId |-> task[s].channelId,
                 content |-> task[s].content, fileIds |-> task[s].fileIds,
                 member |-> isMember(task[s].channelId, sockUser[s])]]
  /\ reply' = NoReply
  /\ UNCHANGED <<chanVars, wsVars, dmVars, notifVars, msgVars, files, userStatus,
                 userSockets, conn, sockUser, rooms, delivered, history>>

MessageSendCheckedAnyone(s) ==
  /\ task[s].kind = "send" /\ task[s].pc = "check"
  /\ LET c == task[s].channelId
         message == NewMessage(nextMessage, c, sockUser[s], Trim(task[s].content))
     IN /\ messages' = [messages EXCEPT ![nextMessage] = message]
        /\ channelMessages' = [channelMessages EXCEPT ![c] = Append(@, nextMessage)]
        /\ nextMessage' = nextMessage + 1
        /\ task' = [task EXCEPT ![s] =
              [kind |-> "send", pc |-> "created", channelId |-> c,
               content |-> task[s].content,
               fileIds |-> task[s].fileIds, message |-> message,
               files |-> <<>>, fi |-> 0, file |-> NoFile]]
        /\ out' = {}
  /\ reply' = NoReply
  /\ UNCHANGED <<chanVars, wsVars, dmVars, notifVars, files, userStatus, userSockets, conn,
                 sockUser, rooms, delivered, history>>

\* after `await isMember`: reject, or call createMessage and suspend
MessageSendChecked(s) ==
  /\ task[s].kind = "send" /\ task[s].pc = "check"
  /\ IF ~task[s].member
     THEN /\ out' = {ErrorEvent(s, "Not a channel member")}
          /\ task' = [task EXCEPT ![s] = Idle]
          /\ UNCHANGED msgVars
     ELSE LET c == task[s].channelId
              message == NewMessage(nextMessage, c, sockUser[s], Trim(task[s].content))
          IN /\ messages' = [messages EXCEPT ![nextMessage] = message]
             /\ channelMessages' = [channelMessages EXCEPT ![c] = Append(@, nextMessage)]
             /\ nextMessage' = nextMessage + 1
             /\ task' = [task EXCEPT ![s] =
                   [kind |-> "send", pc |-> "created", channelId |-> c,
                    content |-> task[s].content,
                    fileIds |-> task[s].fileIds, message |-> message,
                    files |-> <<>>, fi |-> 0, file |-> NoFile]]
             /\ out' = {}
  /\ reply' = NoReply
  /\ UNCHANGED <<chanVars, wsVars, dmVars, notifVars, files, userStatus, userSockets, conn,
                 sockUser, rooms, delivered, history>>

\* after `await createMessage`: enter the file loop, or broadcast
MessageSendCreated(s) ==
  /\ task[s].kind = "send" /\ task[s].pc = "created"
  /\ FileLoop(s, task[s], 1)
  /\ reply' = NoReply
  /\ UNCHANGED <<chanVars, wsVars, dmVars, notifVars, msgVars, files, userStatus,
                 userSockets, conn, sockUser, rooms>>

\* after `await getFileById`: attach the sender's own file and suspend, or
\* skip the file and go on with the loop
MessageSendFile(s) ==
  /\ task[s].kind = "send" /\ task[s].pc = "file"
  /\ LET t == task[s]
         f == t.fileIds[t.fi]
     IN IF t.file # NoFile /\ t.file.uploaderId = sockUser[s]
        THEN /\ files' = IF files[f] = NoFile THEN files
                         ELSE [files EXCEPT ![f].messageId = t.message.id]
             /\ task' = [task EXCEPT ![s] = [t EXCEPT !.pc = "attached"]]
             /\ out' = {}
             /\ UNCHANGED <<delivered, history>>
        ELSE /\ FileLoop(s, t, t.fi + 1)
             /\ UNCHANGED files
  /\ reply' = NoReply
  /\ UNCHANGED <<chanVars, wsVars, dmVars, notifVars, msgVars, userStatus, userSockets, conn,
                 sockUser, rooms>>

\* after `await attachFileToMessage`: files.push, next iteration
MessageSendAttached(s) ==
  /\ task[s].kind = "send" /\ task[s].pc = "attached"
  /\ LET t == task[s] IN
     FileLoop(s, [t EXCEPT !.files = Append(@, t.fileIds[t.fi])], t.fi + 1)
  /\ reply' = NoReply
  /\ UNCHANGED <<chanVars, wsVars, dmVars, notifVars, msgVars, files, userStatus,
                 userSockets, conn, sockUser, rooms>>

\* ---------------------------------------------------------------- direct messages
DMExists(d) == dms[d] # NoDM

\* the order of user ids that Array.prototype.sort uses
UserRank(u) == CASE u = "u1" -> 1 [] u = "u2" -> 2 [] OTHER -> 3

\* [...userIds].sort()
RECURSIVE SortIds(_)
SortIds(ids) ==
  IF ids = <<>> THEN <<>>
  ELSE LET least == CHOOSE i \in 1..Len(ids) :
                      \A j \in 1..Len(ids) : UserRank(ids[i]) <= UserRank(ids[j])
           rest == [k \in 1..(Len(ids) - 1) |-> IF k < least THEN ids[k] ELSE ids[k + 1]]
       IN <<ids[least]>> \o SortIds(rest)

\* a key that keeps the order of the arguments
getDMKeyUnsorted(userIds) == userIds

\* getDMKey: the sorted ids joined with ':'; the ids hold no ':', so the key
\* is the sorted list
getDMKey(userIds) == SortIds(userIds)

\* [...new Set(participantIds)]: the first occurrence of every id, in order
RECURSIVE Dedupe(_)
Dedupe(ids) ==
  IF ids = <<>> THEN <<>>
  ELSE LET front == Dedupe(SubSeq(ids, 1, Len(ids) - 1))
           x == ids[Len(ids)]
       IN IF Includes(front, x) THEN front ELSE Append(front, x)

\* findOrCreateDM: the participant list after adding the creator and deduping
Normalized(participantIds, creatorId) ==
  Dedupe(IF Includes(participantIds, creatorId) THEN participantIds
         ELSE Append(participantIds, creatorId))

\* dmByParticipants.get(key), 0 when the key is not set
DmOfKey(key) ==
  IF \E e \in dmByParticipants : e.key = key
  THEN (CHOOSE e \in dmByParticipants : e.key = key).id
  ELSE 0

findOrCreateDM(participantIds, creatorId) ==
  /\ LET ids == Normalized(participantIds, creatorId)
         existing == IF Len(ids) = 2 THEN DmOfKey(getDMKey(ids)) ELSE 0
     IN IF Len(ids) < 2
        THEN /\ reply' = [op |-> "findOrCreateDM",
                          res |-> "DM requires at least 2 participants", id |-> 0]
             /\ UNCHANGED dmStoreVars
        ELSE IF existing # 0
        THEN /\ reply' = [op |-> "findOrCreateDM", res |-> "ok", id |-> existing]
             /\ UNCHANGED dmStoreVars
        ELSE /\ nextDm \in DmIds
             /\ dms' = [dms EXCEPT ![nextDm] =
                   [type |-> IF Len(ids) = 2 THEN "dm" ELSE "group_dm",
                    participantIds |-> ids]]
             /\ dmByParticipants' =
                   IF Len(ids) = 2
                   THEN dmByParticipants \cup {[key |-> getDMKey(ids), id |-> nextDm]}
                   ELSE dmByParticipants
             /\ nextDm' = nextDm + 1
             /\ reply' = [op |-> "findOrCreateDM", res |-> "ok", id |-> nextDm]
             /\ UNCHANGED <<dmMessages, dmStore, nextDmMessage>>
  /\ out' = {}
  /\ UNCHANGED <<chanVars, wsVars, dmRooms, notifVars, msgVars, files, sessVars>>

\* addParticipant without the test for a participant
addParticipantResultAgain(d, u) ==
  IF ~DMExists(d) THEN "null"
  ELSE IF dms[d].type # "group_dm" THEN "Cannot add participants to 1:1 DM"
  ELSE "ok"

addParticipantResult(d, u) ==
  IF ~DMExists(d) THEN "null"
  ELSE IF dms[d].type # "group_dm" THEN "Cannot add participants to 1:1 DM"
  ELSE IF Includes(dms[d].participantIds, u) THEN "User is already a participant"
  ELSE "ok"

addParticipant(d, u) ==
  /\ LET res == addParticipantResult(d, u) IN
     /\ reply' = Said("addParticipant", res)
     /\ IF res = "ok"
        THEN /\ dms' = [dms EXCEPT ![d].participantIds = Append(@, u)]
             /\ UNCHANGED <<dmByParticipants, nextDm, dmMessages, dmStore, nextDmMessage>>
        ELSE UNCHANGED dmStoreVars
  /\ out' = {}
  /\ UNCHANGED <<chanVars, wsVars, dmRooms, notifVars, msgVars, files, sessVars>>

\* leaveGroupDM without the test of the thread's type
leaveGroupDMResultAnyType(d, u) ==
  IF ~DMExists(d) THEN "false"
  ELSE IF ~Includes(dms[d].participantIds, u) THEN "Not a participant"
  ELSE "ok"

leaveGroupDMResult(d, u) ==
  IF ~DMExists(d) THEN "false"
  ELSE IF dms[d].type # "group_dm" THEN "Cannot leave 1:1 DM"
  ELSE IF ~Includes(dms[d].participantIds, u) THEN "Not a participant"
  ELSE "ok"

leaveGroupDM(d, u) ==
  /\ LET res == leaveGroupDMResult(d, u) IN
     /\ reply' = Said("leaveGroupDM", res)
     /\ IF res = "ok"
        THEN /\ dms' = [dms EXCEPT ![d].participantIds = WithoutId(@, u)]
             /\ UNCHANGED <<dmByParticipants, nextDm, dmMessages, dmStore, nextDmMessage>>
        ELSE UNCHANGED dmStoreVars
  /\ out' = {}
  /\ UNCHANGED <<chanVars, wsVars, dmRooms, notifVars, msgVars, files, sessVars>>

\* isParticipant(dmId, userId)
isParticipant(d, u) ==
  IF ~DMExists(d) THEN FALSE ELSE Includes(dms[d].participantIds, u)

RECURSIVE StoredDMMessages(_)
StoredDMMessages(ids) ==
  IF ids = <<>> THEN <<>>
  ELSE IF dmStore[Head(ids)] = NoMessage THEN StoredDMMessages(Tail(ids))
  ELSE <<dmStore[Head(ids)]>> \o StoredDMMessages(Tail(ids))

\* getDMMessages(dmId, limit, before)
getDMMessages(d, limit, before) ==
  LET messageIds == dmMessages[d]
      beforeIndex == IF before = NoBefore THEN 0 ELSE IndexOf(messageIds, before)
      startIndex == IF beforeIndex # 0 THEN beforeIndex - 1 ELSE Len(messageIds)
      start == Max(0, startIndex - limit)
  IN StoredDMMessages(SubSeq(messageIds, start + 1, startIndex))

\* socket.on('dm:join') up to `await findDMById`
DmJoin(s, d) ==
  /\ conn[s] = "active"
  /\ task[s] = Idle
  /\ task' = [task EXCEPT ![s] =
        [kind |-> "dmjoin", pc |-> "lookup", dmId |-> d, found |-> DMExists(d)]]
  /\ out' = {}
  /\ reply' = NoReply
  /\ UNCHANGED <<chanVars, wsVars, dmVars, notifVars, msgVars, files, userStatus, userSockets,
                 conn, sockUser, rooms, delivered, history>>

\* after `await findDMById`: reject, or call isParticipant and suspend
DmJoinLookedUp(s) ==
  /\ task[s].kind = "dmjoin" /\ task[s].pc = "lookup"
  /\ IF ~task[s].found
     THEN /\ out' = {ErrorEvent(s, "DM not found")}
          /\ task' = [task EXCEPT ![s] = Idle]
     ELSE /\ out' = {}
          /\ task' = [task EXCEPT ![s] =
                [kind |-> "dmjoin", pc |-> "check", dmId |-> task[s].dmId,
                 participant |-> isParticipant(task[s].dmId, sockUser[s])]]
  /\ reply' = NoReply
  /\ UNCHANGED <<chanVars, wsVars, dmVars, notifVars, msgVars, files, userStatus, userSockets,
                 conn, sockUser, rooms, delivered, history>>

\* after `await isParticipant`: deny, or socket.join(`dm:<d>`), call
\* getDMMessages(d, 50) and suspend
DmJoinChecked(s) ==
  /\ task[s].kind = "dmjoin" /\ task[s].pc = "check"
  /\ LET d == task[s].dmId IN
     IF ~task[s].participant
     THEN /\ out' = {ErrorEvent(s, "Access denied")}
          /\ task' = [task EXCEPT ![s] = Idle]
          /\ UNCHANGED dmRooms
     ELSE /\ dmRooms' = [dmRooms EXCEPT ![d] = @ \cup {s}]
          /\ task' = [task EXCEPT ![s] =
                [kind |-> "dmjoin", pc |-> "history", dmId |-> d,
                 snapshot |-> getDMMessages(d, HistoryLimit, NoBefore)]]
          /\ out' = {}
  /\ reply' = NoReply
  /\ UNCHANGED <<chanVars, wsVars, dmStoreVars, notifVars, msgVars, files, userStatus,
                 userSockets, conn, sockUser, rooms, delivered, history>>

\* after `await getDMMessages`: socket.emit('dm:history')
DmJoinHistory(s) ==
  /\ task[s].kind = "dmjoin" /\ task[s].pc = "history"
  /\ out' = {[ev |-> "dm:history", to |-> {s} \cap Connected,
              dmId |-> task[s].dmId, messages |-> task[s].snapshot]}
  /\ task' = [task EXCEPT ![s] = Idle]
  /\ reply' = NoReply
  /\ UNCHANGED <<chanVars, wsVars, dmVars, notifVars, msgVars, files, userStatus, userSockets,
                 conn, sockUser, rooms, delivered, history>>

\* socket.on('dm:leave')
DmLeave(s, d) ==
  /\ conn[s] = "active"
  /\ task[s] = Idle
  /\ dmRooms' = [dmRooms EXCEPT ![d] = @ \ {s}]
  /\ out' = {}
  /\ reply' = NoReply
  /\ UNCHANGED <<chanVars, wsVars, dmStoreVars, notifVars, msgVars, files, sessVars>>

\* socket.on('dm:typing')
DmTyping(s, d) ==
  /\ conn[s] = "active"
  /\ task[s] = Idle
  /\ out' = {[ev |-> "dm:typing", to |-> (dmRooms[d] \cap Connected) \ {s},
              dmId |-> d, userId |-> sockUser[s]]}
  /\ reply' = NoReply
  /\ UNCHANGED <<chanVars, wsVars, dmVars, notifVars, msgVars, files, sessVars>>

\* ---------------------------------------------------------------- dm:send
NoNotification == [userId |-> "none"]

\* the cap of createNotification on a user's list
NotificationCap == 100

\* io.to(`dm:<d>`): the sockets of the room that are still in the namespace
DmRoomSockets(d) == dmRooms[d] \cap Connected

\* the DMMessage record createDMMessage builds
NewDMMessage(id, d, u, content) ==
  [id |-> id, dmId |-> d, userId |-> u, content |-> content]

\* a dm:new event that leaves the attached files out of the payload
DmNewWithoutFiles(t) ==
  [ev |-> "dm:new", to |-> DmRoomSockets(t.dmId),
   message |-> t.message, userId |-> t.message.userId, files |-> <<>>]

\* io.to(`dm:<d>`).emit('dm:new', messageWithUser)
DmNew(t) ==
  [ev |-> "dm:new", to |-> DmRoomSockets(t.dmId),
   message |-> t.message, userId |-> t.message.userId, files |-> t.files]

\* data.content?.trim() || (files.length > 0 ? `sent N file(s)` : '')
NotificationContent(t) ==
  IF Trim(t.content) # <<>> THEN Trim(t.content)
  ELSE IF t.files # <<>> THEN <<"sent", Len(t.files)>>
  ELSE <<>>

\* getUnreadCount(userId)
getUnreadCount(u) ==
  Cardinality({i \in 1..Len(notifications[u]) : ~notifications[u][i].read})

\* a notification that is emitted to the whole namespace
NotificationNewToAll(u, n) ==
  [ev |-> "notification:new", to |-> Connected, notification |-> n]

\* emitNotification(userId, notification)
NotificationNew(u, n) ==
  [ev |-> "notification:new", to |-> userSockets[u] \cap Connected, notification |-> n]

\* the first index from i on of a participant other than the sender
RECURSIVE NextRecipient(_, _, _)
NextRecipient(list, i, sender) ==
  IF i > Len(list) THEN i
  ELSE IF list[i] # sender THEN i
  ELSE NextRecipient(list, i + 1, sender)

\* the loop over dm.participantIds from index i on: notifyDM is called for
\* the next participant other than the sender, reads the preferences in
\* shouldNotify and suspends; or the loop and the handler are over
NotifyLoop(s, t, i) ==
  LET j == NextRecipient(t.list, i, sockUser[s]) IN
  IF j > Len(t.list)
  THEN task' = [task EXCEPT ![s] = Idle]
  ELSE task' = [task EXCEPT ![s] =
          [t EXCEPT !.pc = "notify", !.ni = j, !.pref = dmPrefs[t.list[j]]]]

\* the emit of dm:new, followed by the start of the notification loop
DmBroadcast(s, t) ==
  /\ out' = {DmNew(t)}
  /\ NotifyLoop(s, [t EXCEPT !.list = dms[t.dmId].participantIds], 1)

\* the for-loop over data.fileIds from iteration i on
DmFileLoop(s, t, i) ==
  IF i > Len(t.fileIds)
  THEN DmBroadcast(s, t)
  ELSE /\ task' = [task EXCEPT ![s] =
             [t EXCEPT !.pc = "file", !.fi = i, !.file = files[t.fileIds[i]]]]
       /\ out' = {}

\* the dm:send handlers that have passed validation and not yet stored
DmSendsBeforeCreate ==
  {s \in Sockets : task[s].kind = "dmsend" /\ task[s].pc \in {"lookup", "check"}}

\* socket.on('dm:send') up to `await findDMById`
DmSend(s, d, content, fileIds) ==
  /\ conn[s] = "active"
  /\ task[s] = Idle
  /\ IF Blank(content) /\ fileIds = <<>>
     THEN /\ out' = {ErrorEvent(s, "Message content or files required")}
          /\ UNCHANGED task
     ELSE /\ (nextDmMessage - 1) + Cardinality(DmSendsBeforeCreate) < MaxMessages
          /\ task' = [task EXCEPT ![s] =
                [kind |-> "dmsend", pc |-> "lookup", dmId |-> d,
                 content |-> content, fileIds |-> fileIds, found |-> DMExists(d)]]
          /\ out' = {}
  /\ reply' = NoReply
  /\ UNCHANGED <<chanVars, wsVars, dmVars, notifVars, msgVars, files, userStatus,
                 userSockets, conn, sockUser, rooms, delivered, history>>

\* after `await findDMById`: reject, or call isParticipant and suspend
DmSendLookedUp(s) ==
  /\ task[s].kind = "dmsend" /\ task[s].pc = "lookup"
  /\ IF ~task[s].found
     THEN /\ out' = {ErrorEvent(s, "DM not found")}
          /\ task' = [task EXCEPT ![s] = Idle]
     ELSE /\ out' = {}
          /\ task' = [task EXCEPT ![s] =
                [kind |-> "dmsend", pc |-> "check", dmId |-> task[s].dmId,
                 content |-> task[s].content, fileIds |-> task[s].fileIds,
                 participant |-> isParticipant(task[s].dmId, sockUser[s])]]
  /\ reply' = NoReply
  /\ UNCHANGED <<chanVars, wsVars, dmVars, notifVars, msgVars, files, userStatus,
                 userSockets, conn, sockUser, rooms, delivered, history>>

\* after `await isParticipant`: reject, or call createDMMessage and suspend
DmSendChecked(s) ==
  /\ task[s].kind = "dmsend" /\ task[s].pc = "check"
  /\ IF ~task[s].participant
     THEN /\ out' = {ErrorEvent(s, "Access denied")}
          /\ task' = [task EXCEPT ![s] = Idle]
          /\ UNCHANGED dmStoreVars
     ELSE LET d == task[s].dmId
              message == NewDMMessage(nextDmMessage, d, sockUser[s], Trim(task[s].content))
          IN /\ dmStore' = [dmStore EXCEPT ![nextDmMessage] = message]
             /\ dmMessages' = [dmMessages EXCEPT ![d] = Append(@, nextDmMessage)]
             /\ nextDmMessage' = nextDmMessage + 1
             /\ task' = [task EXCEPT ![s] =
                   [kind |-> "dmsend", pc |-> "created", dmId |-> d,
                    content |-> task[s].content,
                    fileIds |-> task[s].fileIds, message |-> message,
                    files |-> <<>>, fi |-> 0, file |-> NoFile,
                    list |-> <<>>, ni |-> 0, pref |-> FALSE,
                    notification |-> NoNotification]]
             /\ out' = {}
             /\ UNCHANGED <<dms, dmByParticipants, nextDm>>
  /\ reply' = NoReply
  /\ UNCHANGED <<chanVars, wsVars, dmRooms, notifVars, msgVars, files, userStatus,
                 userSockets, conn, sockUser, rooms, delivered, history>>

\* after `await createDMMessage`: enter the file loop, or broadcast
DmSendCreated(s) ==
  /\ task[s].kind = "dmsend" /\ task[s].pc = "created"
  /\ DmFileLoop(s, task[s], 1)
  /\ reply' = NoReply
  /\ UNCHANGED <<chanVars, wsVars, dmVars, notifVars, msgVars, files, userStatus,
                 userSockets, conn, sockUser, rooms, delivered, history>>

\* after `await getFileById`: attach the sender's own file and suspend, or
\* skip the file and go on with the loop
DmSendFile(s) ==
  /\ task[s].kind = "dmsend" /\ task[s].pc = "file"
  /\ LET t == task[s]
         f == t.fileIds[t.fi]
     IN IF t.file # NoFile /\ t.file.uploaderId = sockUser[s]
        THEN /\ files' = IF files[f] = NoFile THEN files
                         ELSE [files EXCEPT ![f].messageId = t.message.id]
             /\ task' = [task EXCEPT ![s] = [t EXCEPT !.pc = "attached"]]
             /\ out' = {}
        ELSE /\ DmFileLoop(s, t, t.fi + 1)
             /\ UNCHANGED files
  /\ reply' = NoReply
  /\ UNCHANGED <<chanVars, wsVars, dmVars, notifVars, msgVars, userStatus,
                 userSockets, conn, sockUser, rooms, delivered, history>>

\* after `await attachFileToMessage`: files.push, next iteration
DmSendAttached(s) ==
  /\ task[s].kind = "dmsend" /\ task[s].pc = "attached"
  /\ LET t == task[s] IN
     DmFileLoop(s, [t EXCEPT !.files = Append(@, t.fileIds[t.fi])], t.fi + 1)
  /\ reply' = NoReply
  /\ UNCHANGED <<chanVars, wsVars, dmVars, notifVars, msgVars, files, userStatus,
                 userSockets, conn, sockUser, rooms, delivered, history>>

\* notifyDM after `await shouldNotify`: null, or createNotification; the
\* handler's own await of notifyDM follows
DmSendNotify(s) ==
  /\ task[s].kind = "dmsend" /\ task[s].pc = "notify"
  /\ LET t == task[s]
         p == t.list[t.ni]
         n == [id |-> nextNotif, userId |-> p, type |-> "dm", read |-> FALSE,
               body |-> NotificationContent(t), dmId |-> t.dmId,
               messageId |-> t.message.id, senderId |-> sockUser[s]]
     IN IF ~t.pref
        THEN /\ task' = [task EXCEPT ![s] =
                   [t EXCEPT !.pc = "notified", !.notification = NoNotification]]
             /\ UNCHANGED <<notifications, nextNotif>>
        ELSE /\ notifications' = [notifications EXCEPT ![p] =
                   SubSeq(<<n>> \o @, 1,
                          IF Len(@) + 1 > NotificationCap THEN NotificationCap
                          ELSE Len(@) + 1)]
             /\ nextNotif' = nextNotif + 1
             /\ task' = [task EXCEPT ![s] =
                   [t EXCEPT !.pc = "notified", !.notification = n]]
  /\ out' = {}
  /\ reply' = NoReply
  /\ UNCHANGED <<chanVars, wsVars, dmVars, dmPrefs, pendingCounts, msgVars, files,
                 userStatus, userSockets, conn, sockUser, rooms, delivered, history>>

\* after `await notifyDM`: emitNotification, emitUnreadCount up to its await
\* (not awaited by the handler), then the next participant
DmSendNotified(s) ==
  /\ task[s].kind = "dmsend" /\ task[s].pc = "notified"
  /\ LET t == task[s]
         p == t.list[t.ni]
     IN /\ IF t.notification # NoNotification
           THEN /\ out' = {NotificationNew(p, t.notification)}
                /\ pendingCounts' =
                     pendingCounts \cup {[userId |-> p, count |-> getUnreadCount(p)]}
           ELSE /\ out' = {}
                /\ UNCHANGED pendingCounts
        /\ NotifyLoop(s, t, t.ni + 1)
  /\ reply' = NoReply
  /\ UNCHANGED <<chanVars, wsVars, dmVars, notifications, dmPrefs, nextNotif, msgVars,
                 files, userStatus, userSockets, conn, sockUser, rooms, delivered, history>>

\* emitUnreadCount after `await getUnreadCount`
EmitUnreadCount(u, count) ==
  /\ [userId |-> u, count |-> count] \in pendingCounts
  /\ pendingCounts' = pendingCounts \ {[userId |-> u, count |-> count]}
  /\ out' = {[ev |-> "notification:count", to |-> userSockets[u] \cap Connected,
              count |-> count]}
  /\ reply' = NoReply
  /\ UNCHANGED <<chanVars, wsVars, dmVars, notifications, dmPrefs, nextNotif, msgVars,
                 files, sessVars>>

\* updatePreferences(userId, { directMessages })
UpdatePreferences(u, directMessages) ==
  /\ dmPrefs' = [dmPrefs EXCEPT ![u] = directMessages]
  /\ out' = {}
  /\ reply' = Said("updatePreferences", "ok")
  /\ UNCHANGED <<chanVars, wsVars, dmVars, notifications, nextNotif, pendingCounts,
                 msgVars, files, sessVars>>

createDMMessageResult(d) == IF ~DMExists(d) THEN "DM not found" ELSE "ok"

\* createDMMessage({dmId, userId, content}), called by the DM route
createDMMessage(d, u, content) ==
  /\ nextDmMessage <= MaxStored
  /\ LET res == createDMMessageResult(d) IN
     /\ reply' = Said("createDMMessage", res)
     /\ IF res = "ok"
        THEN /\ dmStore' = [dmStore EXCEPT ![nextDmMessage] =
                   NewDMMessage(nextDmMessage, d, u, content)]
             /\ dmMessages' = [dmMessages EXCEPT ![d] = Append(@, nextDmMessage)]
             /\ nextDmMessage' = nextDmMessage + 1
             /\ UNCHANGED <<dms, dmByParticipants, nextDm>>
        ELSE UNCHANGED dmStoreVars
  /\ out' = {}
  /\ UNCHANGED <<chanVars, wsVars, dmRooms, notifVars, msgVars, files, sessVars>>

updateDMMessageResult(m, u) ==
  IF dmStore[m] = NoMessage THEN "null"
  ELSE IF dmStore[m].userId # u THEN "Permission denied"
  ELSE "ok"

\* updateDMMessage(id, userId, content)
updateDMMessage(m, u, content) ==
  /\ LET res == updateDMMessageResult(m, u) IN
     /\ reply' = Said("updateDMMessage", res)
     /\ dmStore' = IF res = "ok" THEN [dmStore EXCEPT ![m].content = content]
                   ELSE dmStore
  /\ out' = {}
  /\ UNCHANGED <<chanVars, wsVars, dms, dmByParticipants, nextDm, dmMessages,
                 nextDmMessage, dmRooms, notifVars, msgVars, files, sessVars>>

deleteDMMessageResult(m, u) ==
  IF dmStore[m] = NoMessage THEN "false"
  ELSE IF dmStore[m].userId # u THEN "Permission denied"
  ELSE "ok"

\* deleteDMMessage(id, userId)
deleteDMMessage(m, u) ==
  /\ LET res == deleteDMMessageResult(m, u) IN
     /\ reply' = Said("deleteDMMessage", res)
     /\ IF res = "ok"
        THEN /\ dmStore' = [dmStore EXCEPT ![m] = NoMessage]
             /\ dmMessages' = [dmMessages EXCEPT ![dmStore[m].dmId] = WithoutId(@, m)]
             /\ UNCHANGED <<dms, dmByParticipants, nextDm, nextDmMessage>>
        ELSE UNCHANGED dmStoreVars
  /\ out' = {}
  /\ UNCHANGED <<chanVars, wsVars, dmRooms, notifVars, msgVars, files, sessVars>>

\* GET /dms/:id/messages: the page the route answers with
PageDM(d, limit, before) ==
  /\ reply' = [op |-> "getDMMessages", res |-> "ok",
               page |-> getDMMessages(d, limit, before)]
  /\ out' = {}
  /\ UNCHANGED <<chanVars, wsVars, dmVars, notifVars, msgVars, files, sessVars>>

\* ---------------------------------------------------------------- specifications
Init ==
  /\ channels = [c \in ChannelIds |-> NoChannel]
  /\ channelsByName = {}
  /\ channelMembers = [c \in ChannelIds |-> <<>>]
  /\ nextChannel = 1
  /\ workspaces = [w \in WorkspaceIds |-> NoWorkspace]
  /\ workspaceMembers = [w \in WorkspaceIds |-> <<>>]
  /\ nextWorkspace = 1
  /\ dms = [d \in DmIds |-> NoDM]
  /\ dmByParticipants = {}
  /\ nextDm = 1
  /\ dmMessages = [d \in DmIds |-> <<>>]
  /\ dmStore = [m \in MessageIds |-> NoMessage]
  /\ nextDmMessage = 1
  /\ notifications = [u \in Users |-> <<>>]
  /\ dmPrefs = [u \in Users |-> TRUE]
  /\ nextNotif = 1
  /\ pendingCounts = {}
  /\ dmRooms = [d \in DmIds |-> {}]
  /\ messages = [m \in MessageIds |-> NoMessage]
  /\ channelMessages = [c \in ChannelIds |-> <<>>]
  /\ nextMessage = 1
  /\ files = [f \in FileIds |-> NoFile]
  /\ userStatus = [u \in Users |-> "offline"]
  /\ userSockets = [u \in Users |-> {}]
  /\ conn = [s \in Sockets |-> "new"]
  /\ sockUser = [s \in Sockets |-> "none"]
  /\ rooms = [c \in ChannelIds |-> {}]
  /\ task = [s \in Sockets |-> Idle]
  /\ delivered = [s \in Sockets |-> <<>>]
  /\ history = [s \in Sockets |-> [c \in ChannelIds |-> {}]]
  /\ out = {}
  /\ reply = Said("none", "none")

\* a route that takes the role from the request
PostChannelMemberAsAdmin(c, userId, actor) == AddMember(c, userId, actor, "admin")

\* POST /channels/:id/members {userId}: addMember(id, userId, req.user.id),
\* the role left to its default
PostChannelMember(c, userId, actor) == AddMember(c, userId, actor, "member")

\* the users who call the routes of a channel
Callers == Users

\* a channel of u1 and the calls of the users on it through the routes: add
\* a member, join, remove a member or leave, delete
SelfServeNext ==
  \/ \E n \in ChannelNames, t \in ChannelTypes : CreateChannel(n, t, "u1")
  \/ \E c \in ChannelIds, u \in Users : DeleteChannel(c, u)
  \/ \E c \in ChannelIds, u \in Users, a \in Callers : PostChannelMember(c, u, a)
  \/ \E c \in ChannelIds, a \in Callers : JoinPublicChannel(c, a)
  \/ \E c \in ChannelIds, u \in Users, a \in Callers : RemoveMember(c, u, a)

ChannelNext ==
  \/ \E n \in ChannelNames, t \in ChannelTypes, u \in Users : CreateChannel(n, t, u)
  \/ \E c \in ChannelIds, u \in Users : DeleteChannel(c, u)
  \/ \E c \in ChannelIds, u \in Users, a \in Users, r \in Roles : AddMember(c, u, a, r)
  \/ \E c \in ChannelIds, u \in Users, a \in Users : RemoveMember(c, u, a)
  \/ \E c \in ChannelIds, u \in Users : JoinPublicChannel(c, u)

WorkspaceNext ==
  \/ \E u \in Users : CreateWorkspace(u)
  \/ \E w \in WorkspaceIds, u \in Users : DeleteWorkspace(w, u)
  \/ \E w \in WorkspaceIds, u \in Users, a \in Users, r \in Roles : WsAddMember(w, u, a, r)
  \/ \E w \in WorkspaceIds, u \in Users, a \in Users : WsRemoveMember(w, u, a)
  \/ \E w \in WorkspaceIds, u \in Users, a \in Users, r \in Roles : UpdateMemberRole(w, u, r, a)
  \/ \E w \in WorkspaceIds, n \in Users, o \in Users : TransferOwnership(w, n, o)

PresenceNext ==
  \/ \E s \in Sockets, u \in Users : Connect(s, u)
  \/ \E s \in Sockets : ConnectResume(s)
  \/ \E s \in Sockets : Disconnect(s)
  \/ \E s \in Sockets : DisconnectResume(s)
  \/ \E s \in Sockets, st \in StatusInputs : PresenceUpdate(s, st)
  \/ \E s \in Sockets : PresenceResume(s)

\* the connections of the chat runs and the user whose token each presents
ChatSockets == {"s1", "s2"}
Login == [s \in Sockets |-> CASE s = "s1" -> "u1" [] s = "s2" -> "u2" [] OTHER -> "u3"]

\* two clients on one channel: u1 creates it, u2 is added (POST /:id/members
\* passes no role, so the role is the default) and leaves, both send
SendNext ==
  \/ \E t \in ChannelTypes : CreateChannel("general", t, "u1")
  \/ \E c \in ChannelIds :
        AddMemberResult(c, "u2", "u1", "member") = "ok" /\ AddMember(c, "u2", "u1", "member")
  \/ \E c \in ChannelIds :
        RemoveMemberResult(c, "u2", "u2") = "ok" /\ RemoveMember(c, "u2", "u2")
  \/ \E f \in FileIds, u \in {"u1", "u2"} : UploadFile(f, u)
  \/ \E s \in ChatSockets : Connect(s, Login[s])
  \/ \E s \in ChatSockets : ConnectResume(s)
  \/ \E s \in ChatSockets, c \in ChannelIds : ChannelJoin(s, c)
  \/ \E s \in ChatSockets : ChannelJoinLookedUp(s)
  \/ \E s \in ChatSockets : ChannelJoinChecked(s)
  \/ \E s \in ChatSockets : ChannelJoinHistory(s)
  \/ \E s \in ChatSockets, c \in ChannelIds, x \in Contents, fs \in FileIdLists :
        MessageSend(s, c, x, fs)
  \/ \E s \in ChatSockets : MessageSendLookedUp(s)
  \/ \E s \in ChatSockets : MessageSendChecked(s)
  \/ \E s \in ChatSockets : MessageSendCreated(s)
  \/ \E s \in ChatSockets : MessageSendFile(s)
  \/ \E s \in ChatSockets : MessageSendAttached(s)

\* the participant lists a client may post: one or two user ids
ParticipantLists == UNION {[1..n -> Users] : n \in 1..2}

\* the session steps of the connections of u1 and u2
JoinSession ==
  \/ \E s \in ChatSockets : Connect(s, Login[s])
  \/ \E s \in ChatSockets : ConnectResume(s)
  \/ \E s \in ChatSockets : Disconnect(s)
  \/ \E s \in ChatSockets : DisconnectResume(s)

\* joining channel rooms: a channel of u1 that u2 may be added to and removed from
ChannelJoinNext ==
  \/ \E t \in ChannelTypes : CreateChannel("general", t, "u1")
  \/ \E c \in ChannelIds :
        AddMemberResult(c, "u2", "u1", "member") = "ok" /\ AddMember(c, "u2", "u1", "member")
  \/ \E c \in ChannelIds :
        RemoveMemberResult(c, "u2", "u1") = "ok" /\ RemoveMember(c, "u2", "u1")
  \/ \E s \in ChatSockets, c \in ChannelIds : ChannelJoin(s, c)
  \/ \E s \in ChatSockets : ChannelJoinLookedUp(s)
  \/ \E s \in ChatSockets : ChannelJoinChecked(s)
  \/ \E s \in ChatSockets : ChannelJoinHistory(s)
  \/ \E s \in ChatSockets, c \in ChannelIds : ChannelLeave(s, c)

\* the thread of the join runs
JoinDmIds == {1}

\* joining DM rooms: the one thread any user opens
DmJoinNext ==
  \/ \E ps \in ParticipantLists, u \in Users :
        findOrCreateDM(ps, u) /\ \A d \in DmIds \ JoinDmIds : ~DMExists(d)'
  \/ \E s \in ChatSockets, d \in JoinDmIds : DmJoin(s, d)
  \/ \E s \in ChatSockets : DmJoinLookedUp(s)
  \/ \E s \in ChatSockets : DmJoinChecked(s)
  \/ \E s \in ChatSockets : DmJoinHistory(s)
  \/ \E s \in ChatSockets, d \in JoinDmIds : DmLeave(s, d)

\* channels and DM threads are separate stores and separate rooms: a run
\* joins the rooms of one of the two
JoinNext ==
  \/ JoinSession
  \/ nextDm = 1 /\ ChannelJoinNext
  \/ nextChannel = 1 /\ DmJoinNext

\* the contents of the DM runs: white space alone, and text after white space
DmContents == {<<" ">>, <<" ", "a">>}

\* two clients and one thread of u1: with u2, whose socket is s2, or with u3,
\* to whose thread s2 is a stranger; u2 may turn the DM notifications off
DmSendNext ==
  \/ \E p \in {"u2", "u3"} :
        findOrCreateDM(<<p>>, "u1") /\ \A d \in DmIds \ JoinDmIds : ~DMExists(d)'
  \/ \E f \in FileIds, u \in {"u1", "u2"} : UploadFile(f, u)
  \/ UpdatePreferences("u2", FALSE)
  \/ \E s \in ChatSockets : Connect(s, Login[s])
  \/ \E s \in ChatSockets : ConnectResume(s)
  \/ \E s \in ChatSockets, d \in JoinDmIds : DmJoin(s, d)
  \/ \E s \in ChatSockets : DmJoinLookedUp(s)
  \/ \E s \in ChatSockets : DmJoinChecked(s)
  \/ \E s \in ChatSockets : DmJoinHistory(s)
  \/ \E s \in ChatSockets, d \in JoinDmIds, x \in DmContents, fs \in FileIdLists :
        DmSend(s, d, x, fs)
  \/ \E s \in ChatSockets : DmSendLookedUp(s)
  \/ \E s \in ChatSockets : DmSendChecked(s)
  \/ \E s \in ChatSockets : DmSendCreated(s)
  \/ \E s \in ChatSockets : DmSendFile(s)
  \/ \E s \in ChatSockets : DmSendAttached(s)
  \/ \E s \in ChatSockets : DmSendNotify(s)
  \/ \E s \in ChatSockets : DmSendNotified(s)
  \/ \E u \in Users, n \in 0..MaxMessages : EmitUnreadCount(u, n)

\* one client, u1 on s1, with a channel and a thread of its own and a file
\* of its own or of u2: the sends of every content and file list
SoloSockets == {"s1"}

\* the client's sends to its channel
SoloChannelNext ==
  \/ \E t \in ChannelTypes : CreateChannel("general", t, "u1")
  \/ \E s \in SoloSockets, c \in ChannelIds : ChannelJoin(s, c)
  \/ \E s \in SoloSockets : ChannelJoinLookedUp(s)
  \/ \E s \in SoloSockets : ChannelJoinHistory(s)
  \/ \E s \in SoloSockets, c \in ChannelIds, x \in Contents, fs \in FileIdLists :
        MessageSend(s, c, x, fs)
  \/ \E s \in SoloSockets : MessageSendLookedUp(s)
  \/ \E s \in SoloSockets : MessageSendChecked(s)
  \/ \E s \in SoloSockets : MessageSendCreated(s)
  \/ \E s \in SoloSockets : MessageSendFile(s)
  \/ \E s \in SoloSockets : MessageSendAttached(s)

\* the client's sends to its thread
SoloDmNext ==
  \/ findOrCreateDM(<<"u2">>, "u1") /\ \A d \in DmIds \ JoinDmIds : ~DMExists(d)'
  \/ \E s \in SoloSockets, d \in JoinDmIds : DmJoin(s, d)
  \/ \E s \in SoloSockets : DmJoinLookedUp(s)
  \/ \E s \in SoloSockets : DmJoinChecked(s)
  \/ \E s \in SoloSockets : DmJoinHistory(s)
  \/ \E s \in SoloSockets, d \in JoinDmIds, x \in Contents, fs \in FileIdLists :
        DmSend(s, d, x, fs)
  \/ \E s \in SoloSockets : DmSendLookedUp(s)
  \/ \E s \in SoloSockets : DmSendChecked(s)
  \/ \E s \in SoloSockets : DmSendCreated(s)
  \/ \E s \in SoloSockets : DmSendFile(s)
  \/ \E s \in SoloSockets : DmSendAttached(s)
  \/ \E s \in SoloSockets : DmSendNotify(s)
  \/ \E s \in SoloSockets : DmSendNotified(s)
  \/ \E u \in Users, n \in 0..MaxMessages : EmitUnreadCount(u, n)

\* the channel store and the DM store are separate, and so are their rooms:
\* a run sends to one of the two
SoloSendNext ==
  \/ \E f \in FileIds, u \in {"u1", "u2"} : UploadFile(f, u)
  \/ \E s \in SoloSockets : Connect(s, Login[s])
  \/ \E s \in SoloSockets : ConnectResume(s)
  \/ nextDm = 1 /\ SoloChannelNext
  \/ nextChannel = 1 /\ SoloDmNext

\* the limits and cursors of the page requests
Limits == {-1, 0, 1, 2, HistoryLimit}
Cursors == MessageIds \cup {NoBefore}

\* the messages of one channel: posted and deleted by u1 and u2, and paged
ChannelPageNext ==
  \/ \E c \in ChannelIds, u \in {"u1", "u2"} : createMessage(c, u, <<"a">>)
  \/ \E m \in MessageIds, u \in {"u1", "u2"} : deleteMessage(m, u)
  \/ \E c \in ChannelIds, l \in Limits, b \in Cursors : PageChannel(c, l, b)

\* the messages of one thread of u1 and u2
DMPageNext ==
  \/ findOrCreateDM(<<"u2">>, "u1") /\ \A d \in DmIds \ JoinDmIds : ~DMExists(d)'
  \/ \E d \in JoinDmIds, u \in {"u1", "u2"} : createDMMessage(d, u, <<"a">>)
  \/ \E m \in MessageIds, u \in {"u1", "u2"} : deleteDMMessage(m, u)
  \/ \E d \in JoinDmIds, l \in Limits, b \in Cursors : PageDM(d, l, b)

\* the two message stores are separate: a run fills and pages one of them
PageNext ==
  \/ nextDm = 1 /\ ChannelPageNext
  \/ nextMessage = 1 /\ DMPageNext

\* the text of an edit: not the text the messages are posted with
Edits == {<<"b">>}

\* the messages of an edit run
MaxEdited == 3

\* up to MaxEdited messages of a channel, or of a thread, posted, edited,
\* deleted and paged by u1 and u2
EditNext ==
  \/ nextDm = 1 /\ ChannelPageNext /\ nextMessage' <= MaxEdited + 1
  \/ nextMessage = 1 /\ DMPageNext /\ nextDmMessage' <= MaxEdited + 1
  \/ nextDm = 1 /\ \E m \in MessageIds, u \in {"u1", "u2"}, x \in Edits : updateMessage(m, u, x)
  \/ nextMessage = 1 /\
       \E m \in MessageIds, u \in {"u1", "u2"}, x \in Edits : updateDMMessage(m, u, x)

\* joins and closes, a close being possible at every await of the connection
CloseNext ==
  \/ JoinNext
  \/ \E s \in ChatSockets : CloseWhileConnecting(s)

\* handshakes with every kind of token, among the channel joins of two clients
HandshakeNext ==
  \/ \E s \in ChatSockets, t \in Tokens : Handshake(s, t)
  \/ JoinSession
  \/ ChannelJoinNext

\* the status values and the texts of the failing and the passing requests
FailSoftStatuses == {"away", "busy"}
FailSoftContents == {<<" ">>, <<"a">>}

\* two clients and a private channel of u1 that u2 is added to and removed
\* from: joins, sends without files and status updates, refused or not
FailSoftNext ==
  \/ CreateChannel("general", "private", "u1")
  \/ \E c \in ChannelIds :
        AddMemberResult(c, "u2", "u1", "member") = "ok" /\ AddMember(c, "u2", "u1", "member")
  \/ \E c \in ChannelIds :
        RemoveMemberResult(c, "u2", "u1") = "ok" /\ RemoveMember(c, "u2", "u1")
  \/ \E s \in ChatSockets : Connect(s, Login[s])
  \/ \E s \in ChatSockets : ConnectResume(s)
  \/ \E s \in ChatSockets, c \in ChannelIds : ChannelJoin(s, c)
  \/ \E s \in ChatSockets : ChannelJoinLookedUp(s)
  \/ \E s \in ChatSockets : ChannelJoinChecked(s)
  \/ \E s \in ChatSockets : ChannelJoinHistory(s)
  \/ \E s \in ChatSockets, c \in ChannelIds, x \in FailSoftContents :
        MessageSend(s, c, x, <<>>)
  \/ \E s \in ChatSockets : MessageSendLookedUp(s)
  \/ \E s \in ChatSockets : MessageSendChecked(s)
  \/ \E s \in ChatSockets : MessageSendCreated(s)
  \/ \E s \in ChatSockets, st \in FailSoftStatuses : PresenceUpdate(s, st)
  \/ \E s \in ChatSockets : PresenceResume(s)

\* the join runs with typing events in the rooms
TypingNext ==
  \/ JoinNext
  \/ nextDm = 1 /\ \E s \in ChatSockets, c \in ChannelIds : MessageTyping(s, c)
  \/ nextChannel = 1 /\ \E s \in ChatSockets, d \in JoinDmIds : DmTyping(s, d)

\* a group thread of u1, u2 and u3: u1 and u2 have a client each and send
\* text, u2's client comes and goes, u3 may turn the DM notifications off
NotifyNext ==
  \/ findOrCreateDM(<<"u2", "u3">>, "u1") /\ \A d \in DmIds \ JoinDmIds : ~DMExists(d)'
  \/ UpdatePreferences("u3", FALSE)
  \/ \E s \in ChatSockets : Connect(s, Login[s])
  \/ \E s \in ChatSockets : ConnectResume(s)
  \/ Disconnect("s2")
  \/ DisconnectResume("s2")
  \/ \E s \in ChatSockets, d \in JoinDmIds : DmSend(s, d, <<"a">>, <<>>)
  \/ \E s \in ChatSockets : DmSendLookedUp(s)
  \/ \E s \in ChatSockets : DmSendChecked(s)
  \/ \E s \in ChatSockets : DmSendCreated(s)
  \/ \E s \in ChatSockets : DmSendNotify(s)
  \/ \E s \in ChatSockets : DmSendNotified(s)
  \/ \E u \in Users, n \in 0..MaxMessages : EmitUnreadCount(u, n)

\* the DM model
DmNext ==
  \/ \E ps \in ParticipantLists, u \in Users : findOrCreateDM(ps, u)
  \/ \E d \in DmIds, u \in Users : addParticipant(d, u)
  \/ \E d \in DmIds, u \in Users : leaveGroupDM(d, u)

\* the three membership stores, each explored on its own
ContainerNext ==
  \/ nextWorkspace = 1 /\ nextDm = 1 /\ ChannelNext
  \/ nextChannel = 1 /\ nextDm = 1 /\ WorkspaceNext
  \/ nextChannel = 1 /\ nextWorkspace = 1 /\ DmNext

\* channels and workspaces are separate stores: a call on one reads and writes
\* nothing of the other, so the runs of each store are explored on their own
MembershipNext ==
  \/ nextWorkspace = 1 /\ ChannelNext
  \/ nextChannel = 1 /\ WorkspaceNext

ChannelSpec == Init /\ [][ChannelNext]_vars
WorkspaceSpec == Init /\ [][WorkspaceNext]_vars
MembershipSpec == Init /\ [][MembershipNext]_vars
PresenceSpec == Init /\ [][PresenceNext]_vars
SendSpec == Init /\ [][SendNext]_vars
JoinSpec == Init /\ [][JoinNext]_vars
DmSpec == Init /\ [][DmNext]_vars
DmSendSpec == Init /\ [][DmSendNext]_vars
PageSpec == Init /\ [][PageNext]_vars
SelfServeSpec == Init /\ [][SelfServeNext]_vars
NotifySpec == Init /\ [][NotifyNext]_vars
TypingSpec == Init /\ [][TypingNext]_vars
FailSoftSpec == Init /\ [][FailSoftNext]_vars
HandshakeSpec == Init /\ [][HandshakeNext]_vars
CloseSpec == Init /\ [][CloseNext]_vars
EditSpec == Init /\ [][EditNext]_vars
SoloSendSpec == Init /\ [][SoloSendNext]_vars
ContainerSpec == Init /\ [][ContainerNext]_vars

\* ---------------------------------------------------------------- properties
RoleOf(members, u) == FindMember(members, u).role

\* C1: every existing channel and every existing workspace has exactly one
\* member whose role is `owner`, after any sequence of membership calls.
ExactlyOneOwner ==
  /\ \A c \in ChannelIds :
       ChannelExists(c) => Cardinality(OwnersOf(channelMembers[c])) = 1
  /\ \A w \in WorkspaceIds :
       WorkspaceExists(w) => Cardinality(OwnersOf(workspaceMembers[w])) = 1

\* the outcomes that tell a caller nothing about who is in a private channel
DeniedOutcomes ==
  {"Channel not found", "Permission denied",
   "Cannot join private channel without invitation"}

\* C3: whatever membership call a non-member of a private channel makes on
\* it, and whoever the target is, the outcome is a "not found" / "access
\* denied" one and so does not depend on the channel's member set.
NonMemberLearnsNothing ==
  \A c \in ChannelIds, a \in Users :
    (ChannelExists(c) /\ channels[c].type = "private" /\ ~isMember(c, a)) =>
      \A t \in Users :
        /\ RemoveMemberResult(c, t, a) \in DeniedOutcomes
        /\ \A r \in Roles : AddMemberResult(c, t, a, r) \in DeniedOutcomes
        /\ JoinPublicChannelResult(c, a) \in DeniedOutcomes

\* C2: a join of a private channel's room by a non-member, and of a DM's room
\* by a non-participant, is answered with an error event to that socket
\* alone, adds the socket to no room and ends the handler, so that no
\* history is sent.
NonMemberJoinDenied ==
  [][\A s \in Sockets :
       /\ (ChannelJoinLookedUp(s) /\ task[s].found /\ task[s].type = "private"
             /\ ~isMember(task[s].channelId, sockUser[s])) =>
            (task'[s].pc = "check" /\ ~task'[s].member /\ rooms' = rooms /\ out' = {})
       /\ (ChannelJoinChecked(s) /\ ~task[s].member) =>
            /\ out' = {ErrorEvent(s, "Access denied")}
            /\ rooms' = rooms
            /\ task'[s] = Idle
       /\ (DmJoinLookedUp(s) /\ task[s].found
             /\ ~isParticipant(task[s].dmId, sockUser[s])) =>
            (task'[s].pc = "check" /\ ~task'[s].participant
               /\ dmRooms' = dmRooms /\ out' = {})
       /\ (DmJoinChecked(s) /\ ~task[s].participant) =>
            /\ out' = {ErrorEvent(s, "Access denied")}
            /\ dmRooms' = dmRooms
            /\ task'[s] = Idle]_vars

\* C2 witness: a connection of a non-member of a private channel has just
\* been denied and is in no room
JoinDenied ==
  \E s \in Sockets, c \in ChannelIds :
    /\ ChannelExists(c)
    /\ channels[c].type = "private"
    /\ conn[s] = "active"
    /\ ~isMember(c, sockUser[s])
    /\ out = {ErrorEvent(s, "Access denied")}
    /\ s \notin rooms[c]
    /\ task[s] = Idle

\* C4: a message:send of a user who is not a member when the handler checks
\* is answered with an error event; no message is stored and none is
\* delivered, whatever the channel's type and the socket's rooms.
NonMemberSendRejected ==
  [][\A s \in Sockets :
       /\ (MessageSendLookedUp(s) /\ task[s].found
             /\ ~isMember(task[s].channelId, sockUser[s])) =>
            (task'[s].pc = "check" /\ ~task'[s].member)
       /\ (MessageSendChecked(s) /\ ~task[s].member) =>
            /\ out' = {ErrorEvent(s, "Not a channel member")}
            /\ task'[s] = Idle
            /\ UNCHANGED <<msgVars, delivered, files>>]_vars

\* C4 witness: a connection that is in the room of a public channel whose
\* member its user is not has just been refused a send
SendRefusedInJoinedRoom ==
  \E s \in Sockets, c \in ChannelIds :
    /\ ChannelExists(c)
    /\ channels[c].type = "public"
    /\ s \in RoomSockets(c)
    /\ ~isMember(c, sockUser[s])
    /\ out = {ErrorEvent(s, "Not a channel member")}

\* the step of socket s is the one that ends a message:send with its broadcast
Broadcasts(s) ==
  /\ task[s].kind = "send"
  /\ task[s].pc \in {"created", "file", "attached"}
  /\ task'[s] = Idle

\* the page that holds message id m of channel c
InPage(page, m) == \E i \in 1..Len(page) : page[i].id = m

PageEntry(page, m) == page[CHOOSE i \in 1..Len(page) : page[i].id = m]

Stripped(sent, stored) ==
  \E i \in 1..(Len(sent) + 1), j \in 0..Len(sent) :
    /\ stored = SubSeq(sent, i, j)
    /\ \A k \in 1..Len(sent) : (k < i \/ k > j) => sent[k] = " "
    /\ stored # <<>> => (stored[1] # " " /\ stored[Len(stored)] # " ")

DeliveredInStoreOrder ==
  \A r \in Sockets : \A i \in 1..Len(delivered[r]), j \in 1..Len(delivered[r]) :
    i < j =>
      \A c \in ChannelIds :
        (Includes(channelMessages[c], delivered[r][i])
           /\ Includes(channelMessages[c], delivered[r][j])) =>
          IndexOf(channelMessages[c], delivered[r][i])
            < IndexOf(channelMessages[c], delivered[r][j])

ConnectKeepsStatus ==
  [][\A s \in Sockets, u \in Users :
       (Connect(s, u) /\ userSockets[u] # {}) => userStatus'[u] = userStatus[u]]_vars

\* C9: removeMember(c, u, u) by the owner u of a channel or of a workspace
\* fails and leaves the member list, every role and the owner unchanged.
OwnerCannotLeave ==
  [][\A u \in Users :
       /\ \A c \in ChannelIds :
            (RemoveMember(c, u, u) /\ RoleOf(channelMembers[c], u) = "owner") =>
              (reply'.res # "ok" /\ UNCHANGED chanVars)
       /\ \A w \in WorkspaceIds :
            (WsRemoveMember(w, u, u) /\ RoleOf(workspaceMembers[w], u) = "owner") =>
              (reply'.res # "ok" /\ UNCHANGED wsVars)]_vars

\* C9 witness: an owner asked to leave and was refused
OwnerLeaveRefused ==
  /\ reply.op \in {"removeMember", "wsRemoveMember"}
  /\ reply.res = "Owner must transfer ownership before leaving"

\* C10: a successful transferOwnership(w, a, o) with a # o makes o an admin,
\* a the owner and the owner pointer a, with exactly one owner before and
\* after the single step, and removeMember(w, o, o) then succeeds.
TransferMovesOwnership ==
  [][\A w \in WorkspaceIds, a \in Users, o \in Users :
       (TransferOwnership(w, a, o) /\ reply'.res = "ok" /\ a # o) =>
         /\ Cardinality(OwnersOf(workspaceMembers[w])) = 1
         /\ Cardinality(OwnersOf(workspaceMembers'[w])) = 1
         /\ RoleOf(workspaceMembers'[w], o) = "admin"
         /\ RoleOf(workspaceMembers'[w], a) = "owner"
         /\ workspaces'[w].ownerId = a
         /\ WsRemoveMemberResult(w, o, o)' = "ok"]_vars

\* C10 witness: the creator of a workspace handed it to the second member
OwnershipTransferred ==
  /\ reply = Said("transferOwnership", "ok")
  /\ \E w \in WorkspaceIds :
       /\ WorkspaceExists(w)
       /\ Len(workspaceMembers[w]) = 2
       /\ workspaceMembers[w][1].role = "admin"
       /\ workspaceMembers[w][2].role = "owner"
       /\ workspaces[w].ownerId = workspaceMembers[w][2].userId

\* C11: addMember with role `owner` fails and adds nobody, in a channel and
\* in a workspace, whoever calls it.
AddMemberNeverGrantsOwner ==
  [][\A u \in Users, a \in Users :
       /\ \A c \in ChannelIds :
            AddMember(c, u, a, "owner") => (reply'.res # "ok" /\ UNCHANGED chanVars)
       /\ \A w \in WorkspaceIds :
            WsAddMember(w, u, a, "owner") => (reply'.res # "ok" /\ UNCHANGED wsVars)]_vars

\* u has a record in the member list
InList(members, u) == FindMember(members, u) # NoMember

\* C12 as stated, for a private channel and for a workspace: addMember
\* succeeds only for an adder that is a member and a target that is not; an
\* adder that is no member gets the permission error, a member adding a
\* member gets the conflict error, and a failure changes nothing.
AddMemberByMembersOnly ==
  [][\A u \in Users, a \in Users, r \in Roles :
       /\ \A c \in ChannelIds :
            (AddMember(c, u, a, r) /\ ChannelExists(c) /\ channels[c].type = "private") =>
              LET actorIn == InList(channelMembers[c], a)
                  targetIn == InList(channelMembers[c], u)
              IN /\ reply'.res = "ok" => (actorIn /\ ~targetIn)
                 /\ ~actorIn => (reply'.res = "Permission denied" /\ UNCHANGED chanVars)
                 /\ (actorIn /\ targetIn) =>
                      (reply'.res = "User is already a member" /\ UNCHANGED chanVars)
       /\ \A w \in WorkspaceIds :
            (WsAddMember(w, u, a, r) /\ WorkspaceExists(w)) =>
              LET actorIn == InList(workspaceMembers[w], a)
                  targetIn == InList(workspaceMembers[w], u)
              IN /\ reply'.res = "ok" => (actorIn /\ ~targetIn)
                 /\ ~actorIn => (reply'.res = "Permission denied" /\ UNCHANGED wsVars)
                 /\ (actorIn /\ targetIn) =>
                      (reply'.res = "User is already a member" /\ UNCHANGED wsVars)]_vars

\* C12 amended: in a private channel the adder must be a member, in a
\* workspace the adder must be its owner or an admin; any other adder gets
\* the permission error, an entitled adder of a user who is a member gets
\* the conflict error, and a failure changes nothing.
AddMemberByEntitledOnly ==
  [][\A u \in Users, a \in Users, r \in Roles :
       /\ \A c \in ChannelIds :
            (AddMember(c, u, a, r) /\ ChannelExists(c) /\ channels[c].type = "private") =>
              LET actorIn == InList(channelMembers[c], a)
                  targetIn == InList(channelMembers[c], u)
              IN /\ reply'.res = "ok" => (actorIn /\ ~targetIn)
                 /\ ~actorIn => (reply'.res = "Permission denied" /\ UNCHANGED chanVars)
                 /\ (actorIn /\ targetIn) =>
                      (reply'.res = "User is already a member" /\ UNCHANGED chanVars)
       /\ \A w \in WorkspaceIds :
            (WsAddMember(w, u, a, r) /\ WorkspaceExists(w)) =>
              LET entitled == RoleOf(workspaceMembers[w], a) \in {"owner", "admin"}
                  targetIn == InList(workspaceMembers[w], u)
              IN /\ reply'.res = "ok" => (entitled /\ ~targetIn)
                 /\ ~entitled => (reply'.res = "Permission denied" /\ UNCHANGED wsVars)
                 /\ (entitled /\ targetIn) =>
                      (reply'.res = "User is already a member" /\ UNCHANGED wsVars)]_vars

\* C12 witness: a member of a private channel tried to add a user who is in
\* it and got the conflict error
AddMemberConflict ==
  /\ reply = Said("addMember", "User is already a member")
  /\ \E c \in ChannelIds :
       /\ ChannelExists(c)
       /\ channels[c].type = "private"
       /\ Len(channelMembers[c]) >= 2

\* C13: removeMember(c, target, actor) with actor # target fails and changes
\* nothing when the actor is neither owner nor admin of the container, and
\* when the target is its owner; so a removal by another user has an owner
\* or admin as actor and a non-owner as target.
OnlyOwnerOrAdminRemoves ==
  [][\A t \in Users, a \in Users :
       a # t =>
         /\ \A c \in ChannelIds :
              (RemoveMember(c, t, a)
                 /\ (RoleOf(channelMembers[c], a) \notin {"owner", "admin"}
                       \/ RoleOf(channelMembers[c], t) = "owner")) =>
                (reply'.res # "ok" /\ UNCHANGED chanVars)
         /\ \A w \in WorkspaceIds :
              (WsRemoveMember(w, t, a)
                 /\ (RoleOf(workspaceMembers[w], a) \notin {"owner", "admin"}
                       \/ RoleOf(workspaceMembers[w], t) = "owner")) =>
                (reply'.res # "ok" /\ UNCHANGED wsVars)]_vars

\* C13 witness: an admin of a workspace asked to remove its owner and was
\* refused
AdminRefusedOwnerRemoval ==
  /\ reply = Said("wsRemoveMember", "Cannot remove workspace owner")
  /\ \E w \in WorkspaceIds : \E i \in 1..Len(workspaceMembers[w]) :
       workspaceMembers[w][i].role = "admin"

\* C14: updateMemberRole sets the target's role to the new one when the
\* caller is the owner, the target a member other than the owner and the new
\* role not `owner`; in every other case it fails and changes nothing; and
\* the records with role `owner` are the same before and after.
UpdateRoleByOwnerOnly ==
  [][\A w \in WorkspaceIds, u \in Users, r \in Roles, by \in Users :
       UpdateMemberRole(w, u, r, by) =>
         LET members == workspaceMembers[w]
             allowed == /\ WorkspaceExists(w)
                        /\ RoleOf(members, by) = "owner"
                        /\ InList(members, u)
                        /\ RoleOf(members, u) # "owner"
                        /\ r # "owner"
         IN /\ IF allowed
               THEN /\ reply'.res = "ok"
                    /\ Len(workspaceMembers'[w]) = Len(members)
                    /\ \A i \in 1..Len(members) :
                         workspaceMembers'[w][i] =
                           IF members[i].userId = u
                           THEN [userId |-> u, role |-> r] ELSE members[i]
                    /\ UNCHANGED <<workspaces, nextWorkspace>>
               ELSE reply'.res # "ok" /\ UNCHANGED wsVars
            /\ OwnersOf(workspaceMembers'[w]) = OwnersOf(members)]_vars

\* C14 witness: the owner of a workspace has just made a member an admin
RoleUpdated ==
  /\ reply = Said("updateMemberRole", "ok")
  /\ \E w \in WorkspaceIds :
       /\ Len(workspaceMembers[w]) >= 2
       /\ workspaceMembers[w][1].role = "owner"
       /\ workspaceMembers[w][2].role = "admin"

\* C18: joinPublicChannel on a private channel fails and changes nothing; on
\* a public channel it fails and changes nothing for a member, and for any
\* other user appends one record of the caller with role `member`.
JoinPublicAddsOnce ==
  [][\A c \in ChannelIds, u \in Users :
       (JoinPublicChannel(c, u) /\ ChannelExists(c)) =>
         IF channels[c].type = "private" \/ InList(channelMembers[c], u)
         THEN reply'.res # "ok" /\ UNCHANGED chanVars
         ELSE /\ reply'.res = "ok"
              /\ channelMembers'[c] =
                   Append(channelMembers[c], [userId |-> u, role |-> "member"])
              /\ channels'[c].memberIds = Append(channels[c].memberIds, u)
              /\ \A d \in ChannelIds \ {c} :
                   channelMembers'[d] = channelMembers[d] /\ channels'[d] = channels[d]]_vars

\* C18 witness: a user has just joined a public channel of somebody else
JoinedPublic ==
  /\ reply = Said("joinPublicChannel", "ok")
  /\ \E c \in ChannelIds :
       /\ ChannelExists(c)
       /\ channels[c].type = "public"
       /\ Len(channelMembers[c]) >= 2
       /\ channelMembers[c][Len(channelMembers[c])].role = "member"

\* the set of the ids of a list
IdSet(ids) == {ids[i] : i \in 1..Len(ids)}

\* the 1:1 threads of the pair {a, b}
PairDms(a, b) ==
  {d \in DmIds : DMExists(d) /\ dms[d].type = "dm" /\ IdSet(dms[d].participantIds) = {a, b}}

\* C15: there is at most one thread of type `dm` for a pair of users, and a
\* findOrCreateDM call whose participants, with the creator and without
\* duplicates, are a pair returns the pair's thread when there is one and
\* creates nothing, whatever the order of the ids and whoever the creator.
OneDmPerPair ==
  /\ [](\A a \in Users, b \in Users : Cardinality(PairDms(a, b)) <= 1)
  /\ [][\A ps \in ParticipantLists, u \in Users :
          (findOrCreateDM(ps, u) /\ Len(Normalized(ps, u)) = 2) =>
            LET pair == IdSet(Normalized(ps, u))
                had == {d \in DmIds : DMExists(d) /\ dms[d].type = "dm"
                                        /\ IdSet(dms[d].participantIds) = pair}
            IN /\ reply'.res = "ok"
               /\ reply'.id \in DmIds
               /\ dms'[reply'.id].type = "dm"
               /\ IdSet(dms'[reply'.id].participantIds) = pair
               /\ had # {} => (reply'.id \in had /\ UNCHANGED dmStoreVars)]_vars

\* C15 witness: the thread of a pair was found again by a call that names
\* the two users in the other order
PairFoundAgain ==
  /\ reply.op = "findOrCreateDM"
  /\ reply.res = "ok"
  /\ reply.id = 1
  /\ nextDm = 3
  /\ dms[1].type = "dm"
  /\ dms[1].participantIds = <<"u2", "u1">>

\* C16: the type of a thread never changes; a thread of type `dm` keeps its
\* two participants in every step, and addParticipant and leaveGroupDM on it
\* fail.
DmTypeIsFixed ==
  [][/\ \A d \in DmIds :
          DMExists(d) =>
            /\ DMExists(d)'
            /\ dms'[d].type = dms[d].type
            /\ dms[d].type = "dm" =>
                 (dms'[d] = dms[d] /\ Cardinality(IdSet(dms[d].participantIds)) = 2)
     /\ \A d \in DmIds, u \in Users :
          (DMExists(d) /\ dms[d].type = "dm") =>
            /\ addParticipant(d, u) => reply'.res = "Cannot add participants to 1:1 DM"
            /\ leaveGroupDM(d, u) => reply'.res = "Cannot leave 1:1 DM"]_vars

\* C16 witness: a group thread is down to two participants after a leave and
\* is still a group thread
GroupOfTwo ==
  /\ reply = Said("leaveGroupDM", "ok")
  /\ \E d \in DmIds :
       /\ DMExists(d)
       /\ dms[d].type = "group_dm"
       /\ Len(dms[d].participantIds) = 2

\* no value occurs twice in the list
NoRepeat(seq) == \A i \in 1..Len(seq), j \in 1..Len(seq) : seq[i] = seq[j] => i = j

\* the user ids of a member list
MemberIds(members) == [i \in 1..Len(members) |-> members[i].userId]

\* C17: no user id occurs twice in the member list or the id list of a
\* channel, in the member list of a workspace or in the participant list of
\* a thread.
NoDuplicateMembers ==
  /\ \A c \in ChannelIds :
       ChannelExists(c) =>
         (NoRepeat(channels[c].memberIds) /\ NoRepeat(MemberIds(channelMembers[c])))
  /\ \A w \in WorkspaceIds : NoRepeat(MemberIds(workspaceMembers[w]))
  /\ \A d \in DmIds : DMExists(d) => NoRepeat(dms[d].participantIds)

\* C17 witness: a call that would have added a user a second time was refused
DuplicateRefused ==
  \/ /\ reply = Said("addParticipant", "User is already a participant")
     /\ \E d \in DmIds : DMExists(d) /\ Len(dms[d].participantIds) = 3
  \/ /\ reply = Said("joinPublicChannel", "Already a member")
     /\ \E c \in ChannelIds : ChannelExists(c) /\ Len(channelMembers[c]) >= 2

\* the step of socket s is the one that emits dm:new for its dm:send
DmBroadcasts(s) ==
  /\ task[s].kind = "dmsend"
  /\ task[s].pc \in {"created", "file", "attached"}
  /\ task'[s] = Idle \/ task'[s].pc = "notify"

\* the handler of s has read, for the one file id of its send, a file that
\* the sender uploaded
OneOwnFile(s) ==
  /\ Blank(task[s].content)
  /\ Len(task[s].fileIds) = 1
  /\ task[s].file # NoFile
  /\ task[s].file.uploaderId = sockUser[s]

\* C19: a message:send or dm:send with blank content and no file id emits
\* the validation error and changes no store, no task and no delivery log;
\* one with file ids passes the validation; and the broadcast of a send with
\* blank content and one file of the sender carries the file, for a stored
\* message with empty content to which the file is attached.
BlankSendNeedsFile ==
  [][\A s \in Sockets :
       /\ \A x \in Contents, fs \in FileIdLists :
            /\ \A c \in ChannelIds :
                 MessageSend(s, c, x, fs) =>
                   IF Blank(x) /\ fs = <<>>
                   THEN /\ out' = {ErrorEvent(s, "Message content or files required")}
                        /\ UNCHANGED <<msgVars, dmVars, notifVars, files, task, delivered>>
                   ELSE out' = {} /\ task'[s].pc = "lookup"
            /\ \A d \in DmIds :
                 DmSend(s, d, x, fs) =>
                   IF Blank(x) /\ fs = <<>>
                   THEN /\ out' = {ErrorEvent(s, "Message content or files required")}
                        /\ UNCHANGED <<msgVars, dmVars, notifVars, files, task, delivered>>
                   ELSE out' = {} /\ task'[s].pc = "lookup"
       /\ (Broadcasts(s) /\ OneOwnFile(s)) =>
            \E e \in out' :
              /\ out' = {e}
              /\ e.ev = "message:new"
              /\ e.files = task[s].fileIds
              /\ e.message.content = <<>>
              /\ messages[e.message.id] = e.message
              /\ files[e.files[1]].messageId = e.message.id
       /\ (DmBroadcasts(s) /\ OneOwnFile(s)) =>
            \E e \in out' :
              /\ out' = {e}
              /\ e.ev = "dm:new"
              /\ e.files = task[s].fileIds
              /\ e.message.content = <<>>
              /\ dmStore[e.message.id] = e.message
              /\ files[e.files[1]].messageId = e.message.id]_vars

\* C19 witness: a DM with empty content and a file has been stored, and a
\* dm:send with blank content and no file has just been refused
BlankSendRefused ==
  /\ \E m \in MessageIds :
       /\ dmStore[m] # NoMessage
       /\ dmStore[m].content = <<>>
       /\ \E f \in FileIds : files[f] # NoFile /\ files[f].messageId = m
  /\ \E s \in Sockets : out = {ErrorEvent(s, "Message content or files required")}

\* the page that holds, oldest first, the at most limit records of store
\* whose ids come immediately before position k of ids
WindowBefore(page, ids, store, k, limit) ==
  /\ Len(page) = (IF limit < k - 1 THEN Max(0, limit) ELSE k - 1)
  /\ \A i \in 1..Len(page) : page[i] = store[ids[k - 1 - Len(page) + i]]

\* the ids are in the order of creation
Ascending(ids) == \A i \in 1..Len(ids), j \in 1..Len(ids) : i < j => ids[i] < ids[j]

\* C20: a page of a channel or of a thread asked for with a cursor that is
\* the k-th id of the container's list holds the min(limit, k - 1) messages
\* (none when the limit is below one)
\* at the positions just before k, in the order of the list, which is the
\* order of creation; so neither the cursor's message nor a later one.
PageIsWindowBeforeCursor ==
  [][\A l \in Limits, b \in MessageIds :
       /\ \A c \in ChannelIds :
            (PageChannel(c, l, b) /\ Includes(channelMessages[c], b)) =>
              /\ Ascending(channelMessages[c])
              /\ WindowBefore(reply'.page, channelMessages[c], messages,
                              IndexOf(channelMessages[c], b), l)
              /\ \A i \in 1..Len(reply'.page) : reply'.page[i].id < b
       /\ \A d \in DmIds :
            (PageDM(d, l, b) /\ Includes(dmMessages[d], b)) =>
              /\ Ascending(dmMessages[d])
              /\ WindowBefore(reply'.page, dmMessages[d], dmStore,
                              IndexOf(dmMessages[d], b), l)
              /\ \A i \in 1..Len(reply'.page) : reply'.page[i].id < b]_vars

\* C20 witness: a page of two messages before the last of four, the oldest
\* left out
PageOfTwo ==
  /\ reply.op = "getChannelMessages"
  /\ Len(reply.page) = 2
  /\ \E c \in ChannelIds :
       /\ Len(channelMessages[c]) = 4
       /\ reply.page[1].id = channelMessages[c][2]
       /\ reply.page[2].id = channelMessages[c][3]

\* the list without one id, the others in their order
Others(ids, m) == SelectSeq(ids, LAMBDA i : i # m)

\* the ids of the records of a page
PageIds(page) == {page[i].id : i \in 1..Len(page)}

\* every id of a list has a record of that container, every record is in
\* its container's list
IndexMatchesStore ==
  /\ \A c \in ChannelIds : \A i \in 1..Len(channelMessages[c]) :
       /\ messages[channelMessages[c][i]] # NoMessage
       /\ messages[channelMessages[c][i]].channelId = c
  /\ \A m \in MessageIds :
       messages[m] # NoMessage => Includes(channelMessages[messages[m].channelId], m)
  /\ \A d \in DmIds : \A i \in 1..Len(dmMessages[d]) :
       /\ dmStore[dmMessages[d][i]] # NoMessage
       /\ dmStore[dmMessages[d][i]].dmId = d
  /\ \A m \in MessageIds :
       dmStore[m] # NoMessage => Includes(dmMessages[dmStore[m].dmId], m)

\* C21: an edit or a delete of a stored message by a user who is not its
\* author is refused and changes neither store; a delete by the author
\* removes the record and takes the id out of the container's list, the
\* other ids keeping their order; a message without a record is in no list,
\* so in no page, and its id is never given to a later message.
OnlyAuthorEditsOrDeletes ==
  /\ []IndexMatchesStore
  /\ [][\A m \in MessageIds, u \in Users :
         /\ (messages[m] # NoMessage /\ messages[m].userId # u) =>
              /\ (\E x \in Edits : updateMessage(m, u, x)) =>
                     reply'.res = "Permission denied" /\ UNCHANGED msgVars
              /\ deleteMessage(m, u) =>
                     reply'.res = "Permission denied" /\ UNCHANGED msgVars
         /\ (messages[m] # NoMessage /\ messages[m].userId = u /\ deleteMessage(m, u)) =>
              /\ messages'[m] = NoMessage
              /\ \A n \in MessageIds \ {m} : messages'[n] = messages[n]
              /\ \A c \in ChannelIds : channelMessages'[c] = Others(channelMessages[c], m)
              /\ \A c \in ChannelIds, l \in Limits, b \in Cursors :
                   m \notin PageIds(getChannelMessages(c, l, b)')
              /\ nextMessage' > m
         /\ (dmStore[m] # NoMessage /\ dmStore[m].userId # u) =>
              /\ (\E x \in Edits : updateDMMessage(m, u, x)) =>
                     reply'.res = "Permission denied" /\ UNCHANGED dmStoreVars
              /\ deleteDMMessage(m, u) =>
                     reply'.res = "Permission denied" /\ UNCHANGED dmStoreVars
         /\ (dmStore[m] # NoMessage /\ dmStore[m].userId = u /\ deleteDMMessage(m, u)) =>
              /\ dmStore'[m] = NoMessage
              /\ \A n \in MessageIds \ {m} : dmStore'[n] = dmStore[n]
              /\ \A d \in DmIds : dmMessages'[d] = Others(dmMessages[d], m)
              /\ \A d \in DmIds, l \in Limits, b \in Cursors :
                   m \notin PageIds(getDMMessages(d, l, b)')
              /\ nextDmMessage' > m
         /\ nextMessage' >= nextMessage /\ nextDmMessage' >= nextDmMessage]_vars

\* C21 witness: the author has deleted the second of three messages of two
\* authors, and the list keeps the first and the third
MiddleMessageDeleted ==
  /\ reply = Said("deleteMessage", "ok")
  /\ \E c \in ChannelIds :
       /\ channelMessages[c] = <<1, 3>>
       /\ messages[2] = NoMessage
       /\ messages[1].userId # messages[3].userId

\* C22: a connection that is closed, with no handler of it still in flight,
\* is in no user's set of live sockets and in no room.
ClosedConnectionForgotten ==
  \A s \in Sockets :
    (conn[s] = "closed" /\ task[s] = Idle) =>
      /\ \A u \in Users : s \notin userSockets[u]
      /\ \A c \in ChannelIds : s \notin rooms[c]
      /\ \A d \in DmIds : s \notin dmRooms[d]

\* the presence broadcasts of a step
PresenceEvents == {e \in out : e.ev = "presence:changed"}

\* C23: a handshake without a token, with a token that does not verify or
\* with the token of a user that no longer exists is refused: the socket is
\* never connecting or active, and the step changes no live-socket set, no
\* room, no status and broadcasts no presence; a refused socket stays refused
\* and is in no index.
FailedHandshakeRegistersNothing ==
  /\ [](\A s \in Sockets : conn[s] = "refused" =>
          /\ task[s] = Idle
          /\ \A u \in Users : s \notin userSockets[u]
          /\ \A c \in ChannelIds : s \notin rooms[c]
          /\ \A d \in DmIds : s \notin dmRooms[d])
  /\ [][\A s \in Sockets :
         /\ \A t \in Tokens \ Users :
              Handshake(s, t) =>
                /\ conn'[s] = "refused"
                /\ reply'.res # "ok"
                /\ UNCHANGED <<userSockets, rooms, dmRooms, userStatus, sockUser>>
                /\ PresenceEvents' = {}
         /\ conn[s] = "refused" => conn'[s] = "refused"]_vars

\* C23 witness: the token of a deleted user has just been refused while
\* another user is connected
DeletedUserRefused ==
  /\ reply = Said("connect_error", "User not found")
  /\ \E s \in Sockets : conn[s] = "refused"
  /\ \E s \in Sockets : conn[s] = "active"

\* the error events of a step
ErrorEvents == {e \in out : e.ev = "error"}

\* C24: a step of a handler that emits an error closes no connection and
\* changes no room; the error goes to the one connection whose handler it is,
\* which is active before and after, and to no other connection. The
\* failures of the three handlers are such steps: a join of a channel that
\* was not found or of a private channel whose isMember answered no, a send
\* that is blank, to a channel that was not found or after isMember answered
\* no, and a status that is not valid.
FailureIsScoped ==
  [][/\ \A e \in ErrorEvents' :
          /\ conn' = conn
          /\ rooms' = rooms /\ dmRooms' = dmRooms
          /\ \E s \in Sockets : e.to = {s} /\ conn'[s] = "active"
     /\ \A s \in Sockets :
          /\ (ChannelJoinLookedUp(s) /\ ~task[s].found) => ErrorEvents' # {}
          /\ (ChannelJoinChecked(s) /\ ~task[s].member) => ErrorEvents' # {}
          /\ (MessageSendLookedUp(s) /\ ~task[s].found) => ErrorEvents' # {}
          /\ (MessageSendChecked(s) /\ ~task[s].member) => ErrorEvents' # {}
          /\ (\E c \in ChannelIds : MessageSend(s, c, <<" ">>, <<>>)) => ErrorEvents' # {}
          /\ PresenceUpdate(s, "busy") => ErrorEvents' # {}]_vars

\* C24 witness: a removed member's send has been refused while its connection
\* and another one are in the channel's room
SendRefusedStillSubscribed ==
  /\ \E e \in ErrorEvents : e.message = "Not a channel member" /\ e.to = {"s2"}
  /\ \E c \in ChannelIds : rooms[c] = {"s1", "s2"}
  /\ conn["s1"] = "active" /\ conn["s2"] = "active"

\* the connections a step delivers an event to
Reached == UNION {e.to : e \in out}

\* C25: a channel:leave or dm:leave of a connection that is not in the room
\* emits no error, changes no room and delivers nothing to any connection.
LeaveWithoutJoinIsNoOp ==
  [][\A s \in Sockets :
       /\ \A c \in ChannelIds :
            (ChannelLeave(s, c) /\ s \notin rooms[c]) =>
               /\ ErrorEvents' = {}
               /\ rooms' = rooms /\ dmRooms' = dmRooms
               /\ Reached' = {}
       /\ \A d \in DmIds :
            (DmLeave(s, d) /\ s \notin dmRooms[d]) =>
               /\ ErrorEvents' = {}
               /\ rooms' = rooms /\ dmRooms' = dmRooms
               /\ Reached' = {}]_vars

\* C26: a typing event of a connection goes to the connected sockets of the
\* room other than that connection, never to the connection itself, and the
\* step writes no message, membership, thread, file, status or notification.
TypingGoesToOthersOnly ==
  [][\A s \in Sockets :
       /\ \A c \in ChannelIds :
            MessageTyping(s, c) =>
               /\ out' # {}
               /\ \A e \in out' :
                    /\ e.ev = "message:typing" /\ e.userId = sockUser[s]
                    /\ e.to = {t \in rooms[c] : t # s /\ conn[t] \in {"connecting", "active"}}
               /\ UNCHANGED <<chanVars, wsVars, dmVars, notifVars, msgVars, files,
                              userStatus, userSockets, rooms, delivered>>
       /\ \A d \in DmIds :
            DmTyping(s, d) =>
               /\ out' # {}
               /\ \A e \in out' :
                    /\ e.ev = "dm:typing" /\ e.userId = sockUser[s]
                    /\ e.to = {t \in dmRooms[d] : t # s /\ conn[t] \in {"connecting", "active"}}
               /\ UNCHANGED <<chanVars, wsVars, dmVars, notifVars, msgVars, files,
                              userStatus, userSockets, rooms, delivered>>]_vars

\* C26 witness: a connection in a room with another one has typed, and the
\* event went to the other one
TypingSeenByOther ==
  \E e \in out :
    /\ e.ev = "message:typing"
    /\ e.userId = "u1" /\ e.to = {"s2"}
    /\ rooms[e.channelId] = {"s1", "s2"}

\* the notifications of a user for one DM message
NotifsIn(lists, u, m) ==
  {i \in 1..Len(lists[u]) : lists[u][i].type = "dm" /\ lists[u][i].messageId = m}

NotifsFor(u, m) == NotifsIn(notifications, u, m)

\* the connections of a user that are in the namespace
LiveSockets(u) == {t \in Sockets : sockUser[t] = u /\ conn[t] \in {"connecting", "active"}}

\* the participants of a thread
Participants(d) == {dms[d].participantIds[i] : i \in 1..Len(dms[d].participantIds)}

\* the step that ends the dm:send handler of s after its message was stored
DmSendDone(s) == DmSendNotified(s) /\ task'[s] = Idle

\* C27 as stated: when the handler of an accepted DM message ends, every
\* participant other than the sender has one notification for the message.
EveryOtherParticipantNotified ==
  [][\A s \in Sockets :
       DmSendDone(s) =>
         \A p \in Participants(task[s].dmId) \ {sockUser[s]} :
            Cardinality(NotifsIn(notifications', p, task[s].message.id)) = 1]_vars

\* C27, amended: no user has a notification for a message of their own, and
\* a notification:new goes to exactly the live connections of the user it is
\* for, who is not the sender; when the handler of an accepted DM message
\* ends, every participant other than the sender whose preferences have the
\* DM notifications on has one notification for the message, a participant
\* with them off has at most one, and the sender has none.
OtherParticipantsNotifiedUnlessMuted ==
  /\ [](\A u \in Users : \A i \in 1..Len(notifications[u]) :
          notifications[u][i].userId = u /\ notifications[u][i].senderId # u)
  /\ [][/\ \A e \in out' :
            e.ev = "notification:new" =>
              /\ e.to = LiveSockets(e.notification.userId)'
              /\ e.notification.userId # e.notification.senderId
        /\ \A s \in Sockets :
            /\ (DmSendNotified(s) /\ task[s].notification # NoNotification) =>
                 \E e \in out' : e.ev = "notification:new" /\ e.notification = task[s].notification
            /\ DmSendDone(s) =>
                 /\ \A p \in Participants(task[s].dmId) \ {sockUser[s]} :
                      /\ dmPrefs'[p] => Cardinality(NotifsIn(notifications', p, task[s].message.id)) = 1
                      /\ Cardinality(NotifsIn(notifications', p, task[s].message.id)) <= 1
                 /\ NotifsIn(notifications', sockUser[s], task[s].message.id) = {}]_vars

\* C27 witness: u1's message to the group has been handled: u2, with a live
\* connection, has its notification and u3, who turned them off, has none
GroupNotifiedButMuted ==
  /\ task["s1"] = Idle
  /\ \E m \in MessageIds :
       /\ dmStore[m] # NoMessage /\ dmStore[m].userId = "u1"
       /\ NotifsFor("u2", m) # {}
       /\ NotifsFor("u3", m) = {}
  /\ conn["s2"] = "active"
  /\ ~dmPrefs["u3"]

\* C28: at the step that appends a message to a channel's list, the channel
\* exists and the author of the message is a member of it.
AppendOnlyByCurrentMember ==
  [][\A c \in ChannelIds :
       Len(channelMessages'[c]) > Len(channelMessages[c]) =>
         /\ ChannelExists(c)
         /\ isMember(c, messages'[channelMessages'[c][Len(channelMessages'[c])]].userId)]_vars

\* C29: every connection in the room of a private channel is a connection
\* of a member of the channel, and every connection in the room of a thread
\* is a connection of a participant of the thread.
SubscribersAreMembers ==
  /\ \A c \in ChannelIds : \A s \in RoomSockets(c) :
       (ChannelExists(c) /\ channels[c].type = "private") => isMember(c, sockUser[s])
  /\ \A d \in DmIds : \A s \in DmRoomSockets(d) :
       DMExists(d) => isParticipant(d, sockUser[s])

\* C30: an event of a user that is delivered to a connection in the room of
\* a private channel (message:new, message:typing, channel:joined,
\* channel:left) is an event of a member of the channel, and one delivered in
\* the room of a thread (dm:new, dm:typing) is an event of a participant.
RoomEventsFromMembersOnly ==
  [][\A e \in out' :
       /\ (e.ev \in {"message:typing", "channel:joined", "channel:left"} /\ e.to # {}
             /\ channels[e.channelId].type = "private") =>
            isMember(e.channelId, e.userId)
       /\ (e.ev = "message:new" /\ e.to # {}
             /\ channels[e.message.channelId].type = "private") =>
            isMember(e.message.channelId, e.userId)
       /\ (e.ev = "dm:typing" /\ e.to # {}) => isParticipant(e.dmId, e.userId)
       /\ (e.ev = "dm:new" /\ e.to # {}) => isParticipant(e.message.dmId, e.userId)]_vars

Quiescent ==
  \A s \in Sockets : conn[s] \in {"new", "active", "closed", "refused"} /\ task[s] = Idle

\* C32: a presence:changed event whose broadcast leaves no handler suspended
\* (so it is the most recent one of its user at a moment when no handler is
\* in flight) carries the status that is stored for the user.
AnnouncedStatusIsStored ==
  [][\A e \in out' :
       (e.ev = "presence:changed" /\ Quiescent') => e.status = userStatus'[e.userId]]_vars

\* the ids of the history snapshot of the connection's join of the channel:
\* the one read by a join handler that has not emitted it yet, else the one
\* last received
SnapshotIds(s, c) ==
  IF task[s].kind = "join" /\ task[s].pc = "history" /\ task[s].channelId = c
  THEN {task[s].snapshot[i].id : i \in 1..Len(task[s].snapshot)}
  ELSE history[s][c]

\* a send handler has stored the message and not yet broadcast it
BroadcastPending(m) ==
  \E r \in Sockets :
    /\ task[r].kind = "send" /\ task[r].pc \in {"created", "file", "attached"}
    /\ task[r].message.id = m

\* C33: for a connection subscribed to the room of a channel that holds fewer
\* than 50 messages, every message stored in the channel is in the history
\* snapshot of the connection's join, or has been delivered to it as
\* message:new, or is held by a send handler that has yet to broadcast it.
JoinMissesNoMessage ==
  \A c \in ChannelIds : \A s \in rooms[c] :
    Len(channelMessages[c]) < HistoryLimit =>
      \A i \in 1..Len(channelMessages[c]) :
        \/ channelMessages[c][i] \in SnapshotIds(s, c)
        \/ Includes(delivered[s], channelMessages[c][i])
        \/ BroadcastPending(channelMessages[c][i])

\* a join that ran between the store and the broadcast of a message: the
\* message is in the snapshot received and was delivered as well, and a later
\* message of the channel reached the connection by delivery alone
JoinedBetweenStoreAndBroadcast ==
  \E c \in ChannelIds : \E s \in rooms[c] : \E m, n \in MessageIds :
    /\ Includes(channelMessages[c], m) /\ Includes(channelMessages[c], n)
    /\ m \in history[s][c] /\ Includes(delivered[s], m)
    /\ n \notin history[s][c] /\ Includes(delivered[s], n)

\* some file is attached to the message
HasFile(m) == \E f \in FileIds : files[f] # NoFile /\ files[f].messageId = m

\* C34: once the send handlers have run to their end, every message stored in
\* a channel or in a DM thread has non-empty content or a file attached to it.
StoredMessageHasContentOrFile ==
  Quiescent =>
    \A m \in MessageIds :
      /\ messages[m] # NoMessage => (messages[m].content # <<>> \/ HasFile(m))
      /\ dmStore[m] # NoMessage => (dmStore[m].content # <<>> \/ HasFile(m))

\* C35: every existing DM thread has at least two distinct participants.
ThreadHasTwoParticipants ==
  \A d \in DmIds :
    DMExists(d) =>
      Cardinality({dms[d].participantIds[i] : i \in 1..Len(dms[d].participantIds)}) >= 2

\* C36: in every existing workspace the user named by ownerId has a member
\* record with role owner, and no other member has that role.
OwnerPointerMatchesRole ==
  \A w \in WorkspaceIds :
    WorkspaceExists(w) =>
      \A u \in Users :
        (\E i \in 1..Len(workspaceMembers[w]) :
            /\ workspaceMembers[w][i].userId = u
            /\ workspaceMembers[w][i].role = "owner")
          <=> u = workspaces[w].ownerId

\* the owner of a workspace with no other member has just transferred the
\* ownership to themself
TransferredToSelf ==
  \E w \in WorkspaceIds :
    /\ WorkspaceExists(w)
    /\ reply = Said("transferOwnership", "ok")
    /\ Len(workspaceMembers[w]) = 1
    /\ workspaceMembers[w][1].userId = workspaces[w].ownerId
    /\ workspaceMembers[w][1].role = "owner"

\* C37: in every existing channel a user id is in channel.memberIds exactly
\* when the channel's member-record list has a record of that user.
MemberIdsMatchRecords ==
  \A c \in ChannelIds :
    ChannelExists(c) =>
      \A u \in Users :
        Includes(channels[c].memberIds, u)
          <=> \E i \in 1..Len(channelMembers[c]) : channelMembers[c][i].userId = u

\* a member has just been removed from a channel that keeps two others
RemovedFromBothLists ==
  /\ reply = Said("removeMember", "ok")
  /\ \E c \in ChannelIds :
       /\ ChannelExists(c)
       /\ Len(channels[c].memberIds) = 2
       /\ Len(channelMembers[c]) = 2
====
